---------------------------- MODULE Spec2Model ----------------------------
(***************************************************************************)
(* Model of the STS maintenance dashboard script (src/unnamed/part_001):   *)
(* the work-order pipeline (date parsing, row normalisation,               *)
(* classification, aggregation), the filter handlers, the three analysis   *)
(* views and the dashboard sections they render.                           *)
(*                                                                         *)
(* Conventions.  A JavaScript string whose characters matter (equipment    *)
(* keys, names, descriptions) is a sequence of one-character strings; an   *)
(* enumeration-like string (job type, cost purpose, labels) is a TLA+      *)
(* string.  A JavaScript value of unknown shape is a tagged record         *)
(* [t |-> tag, ...].  A Date is an integer: the hours of local wall-clock  *)
(* time elapsed since 1970-01-01T00:00 local time; the variable tz is the  *)
(* offset of local time from UTC in hours.                                 *)
(***************************************************************************)
EXTENDS Integers, Sequences, FiniteSets, TLC

VARIABLES
    tz,             \* local time minus UTC, in hours (the browser's zone)
    currentData,    \* the held result {data, kpis, charts}, or Null
    currentView,    \* 'general' | 'corrective' | 'breakdown'
    weekInputs,     \* value of the four <input type="week"> controls
    selects,        \* the multi-selects: options and selected options
    equipmentSelect,\* value of the equipment <select>
    kpiSection,     \* what #kpiSection shows
    chartSection,   \* what #chartSection shows
    faultsTable,    \* what #faultsTableBody shows
    equipmentAnalysis, \* what #equipmentAnalysis shows
    periodInfo,     \* what #orderPeriod / #execPeriod show
    reading,        \* file reads in flight (FileReader / XHR), by load
    nextLoad,       \* number of loads initiated so far
    lastEvent,      \* history: the handler that ran last, the filters last
                    \* read since the load, the file of the load in force
    pipeIn,         \* input handed to the pipeline (pipeline specification)
    pipeOut         \* what the pipeline returned or threw

vars == <<tz, currentData, currentView, weekInputs, selects, equipmentSelect,
          kpiSection, chartSection, faultsTable, equipmentAnalysis,
          periodInfo, reading, nextLoad, lastEvent, pipeIn, pipeOut>>

---------------------------------------------------------------------------
(* JavaScript values *)

Undefined == [t |-> "undef"]
Null == [t |-> "null"]
\* a string whose characters matter
Str(chars) == [t |-> "str", v |-> chars]
\* an enumeration-like string
Atom(s) == [t |-> "atom", v |-> s]
\* a number
Num(n) == [t |-> "num", n |-> n]
\* a date cell written DD/MM/YYYY, and one written YYYY-MM-DD
Slash(d, m, y) == [t |-> "slash", d |-> d, m |-> m, y |-> y]
Iso(y, m, d) == [t |-> "iso", y |-> y, m |-> m, d |-> d]
\* a text cell that is no date at all ("N/A")
Text == [t |-> "text"]

\* JavaScript truthiness of a value
Truthy(v) ==
    /\ v.t \notin {"undef", "null"}
    /\ ~(v.t = "num" /\ v.n = 0)
    /\ ~(v.t = "str" /\ v.v = <<>>)

\* a || b
Or(a, b) == IF Truthy(a) THEN a ELSE b

---------------------------------------------------------------------------
(* Strings as character sequences *)

\* the letters of the strings modelled; "e_grave" and "e_acute" stand for the accented
\* letters e-grave and e-acute of the French failure texts
LowerChars == <<"a","b","c","d","e","f","g","h","i","j","k","l","m",
                "n","o","p","q","r","s","t","u","v","w","x","y","z",
                "e_grave","e_acute">>
UpperChars == <<"A","B","C","D","E","F","G","H","I","J","K","L","M",
                "N","O","P","Q","R","S","T","U","V","W","X","Y","Z",
                "E_GRAVE","E_ACUTE">>
Digits == <<"0","1","2","3","4","5","6","7","8","9">>

ToUpperChar(c) ==
    IF \E i \in 1..Len(LowerChars) : LowerChars[i] = c
    THEN UpperChars[CHOOSE i \in 1..Len(LowerChars) : LowerChars[i] = c]
    ELSE c

\* String.prototype.toUpperCase
toUpperCase(s) == [i \in 1..Len(s) |-> ToUpperChar(s[i])]

\* String.prototype.includes
includes(s, p) ==
    \E i \in 0..(Len(s) - Len(p)) : SubSeq(s, i + 1, i + Len(p)) = p

\* String.prototype.slice(0, n)
slice0(s, n) == SubSeq(s, 1, IF n < Len(s) THEN n ELSE Len(s))

Min(S) == CHOOSE x \in S : \A y \in S : x <= y
Max(S) == CHOOSE x \in S : \A y \in S : x >= y

IsDigit(c) == \E i \in 1..10 : Digits[i] = c
DigitValue(c) == (CHOOSE i \in 1..10 : Digits[i] = c) - 1

\* parseInt(digits, 10) of a non-empty run of digits
RECURSIVE parseIntDigits(_)
parseIntDigits(ds) ==
    IF ds = <<>> THEN 0
    ELSE 10 * parseIntDigits(SubSeq(ds, 1, Len(ds) - 1)) + DigitValue(ds[Len(ds)])

\* String(n) of a natural number
RECURSIVE NumToChars(_)
NumToChars(n) ==
    IF n < 10 THEN <<Digits[n + 1]>>
    ELSE NumToChars(n \div 10) \o <<Digits[(n % 10) + 1]>>

---------------------------------------------------------------------------
(* The calendar: days are counted from 1970-01-01 (day 0, a Thursday) *)

\* the day number of a civil date whose year starts in March: yy is the
\* year, mp the month counted from March (0..11)
DaysFromMarchYear(yy, mp, d) ==
    365 * yy + yy \div 4 - yy \div 100 + yy \div 400
    + (153 * mp + 2) \div 5 + d - 1 - 719468

DaysFromCivil(y, m, d) ==
    DaysFromMarchYear(IF m <= 2 THEN y - 1 ELSE y,
                      IF m > 2 THEN m - 3 ELSE m + 9, d)

\* the civil date of: a 400-year era, the year of the era (from March), the
\* day of that year and its month counted from March
CivilOfMonth(era, yoe, doy, mp) ==
    [y |-> yoe + era * 400 + (IF mp >= 10 THEN 1 ELSE 0),
     m |-> IF mp < 10 THEN mp + 3 ELSE mp - 9,
     d |-> doy - (153 * mp + 2) \div 5 + 1]

CivilOfDayOfYear(era, yoe, doy) ==
    CivilOfMonth(era, yoe, doy, (5 * doy + 2) \div 153)

CivilOfYearOfEra(era, doe, yoe) ==
    CivilOfDayOfYear(era, yoe, doe - (365 * yoe + yoe \div 4 - yoe \div 100))

CivilOfDayOfEra(era, doe) ==
    CivilOfYearOfEra(era, doe,
        (doe - doe \div 1460 + doe \div 36524 - doe \div 146096) \div 365)

CivilFromDays(z) ==
    CivilOfDayOfEra((z + 719468) \div 146097, (z + 719468) % 146097)

\* 0 = Sunday .. 6 = Saturday
DayOfWeek(z) == (z + 4) % 7

\* a real calendar day
ValidCivil(y, m, d) ==
    /\ m \in 1..12
    /\ d >= 1
    /\ CivilFromDays(DaysFromCivil(y, m, d)) = [y |-> y, m |-> m, d |-> d]

\* new Date(year, monthIndex, day): out-of-range months and days roll over,
\* and a year of 0..99 means 1900 + year; the result is a local midnight
JSDate(year, monthIndex, day) ==
    LET y0 == IF year \in 0..99 THEN 1900 + year ELSE year
        y == y0 + (monthIndex \div 12)
        m == (monthIndex % 12) + 1
    IN 24 * (DaysFromCivil(y, m, 1) + day - 1)

\* the local calendar day a Date falls on, and the Date getters
LocalDay(date) == date \div 24
getFullYear(date) == CivilFromDays(LocalDay(date)).y
getMonth(date) == CivilFromDays(LocalDay(date)).m - 1
getDate(date) == CivilFromDays(LocalDay(date)).d
getDay(date) == DayOfWeek(LocalDay(date))

---------------------------------------------------------------------------
(* Date handling *)

DateVal(h) == [t |-> "date", h |-> h]

\* new Date(1899, 11, 30): Excel's epoch, as a day number
excelEpochDay == DaysFromCivil(1899, 12, 30)

\* parseFrenchDate(dateStr): a Date or Null
parseFrenchDate(dateStr) ==
    IF ~Truthy(dateStr) THEN Null
    ELSE IF dateStr.t = "num"
        THEN DateVal(24 * (excelEpochDay + dateStr.n))
    ELSE IF dateStr.t = "iso" /\ ValidCivil(dateStr.y, dateStr.m, dateStr.d)
        \* new Date("YYYY-MM-DD") is midnight UTC
        THEN DateVal(24 * DaysFromCivil(dateStr.y, dateStr.m, dateStr.d) + tz)
    ELSE IF dateStr.t = "iso"
        \* not a date for new Date(): split on "-" gives three integers,
        \* read as day, month, year
        THEN DateVal(JSDate(dateStr.d, dateStr.m - 1, dateStr.y))
    ELSE IF dateStr.t = "slash"
        THEN DateVal(JSDate(dateStr.y, dateStr.m - 1, dateStr.d))
    ELSE Null

\* formatToFrenchDate(date): "DD/MM/YYYY" of the local day, or Null
formatToFrenchDate(date) ==
    IF date.t # "date" THEN Null
    ELSE Slash(getDate(date.h), getMonth(date.h) + 1, getFullYear(date.h))

\* the ISO-8601 week number of the week whose Thursday is day d
weekOfThursday(d) ==
    (d - DaysFromCivil(CivilFromDays(d).y, 1, 1) + 7) \div 7

\* getWeekNumber(date): the ISO-8601 week number of the local day
getWeekNumber(date) ==
    weekOfThursday(LocalDay(date) + 4
                   - (IF DayOfWeek(LocalDay(date)) = 0
                      THEN 7 ELSE DayOfWeek(LocalDay(date))))

\* a week string "YYYY-Www"
Week(y, w) == [t |-> "week", y |-> y, w |-> w]
\* the empty string of an empty control
Empty == [t |-> "str", v |-> <<>>]

\* "${date.getFullYear()}-W${getWeekNumber(date)}" of a Date, 'Unknown' of none
weekBucket(date) ==
    IF date = Null THEN Atom("Unknown")
    ELSE Week(getFullYear(date.h), getWeekNumber(date.h))

\* formatDateForChart(dateStr)
formatDateForChart(dateStr) == weekBucket(parseFrenchDate(dateStr))

\* the number of ISO weeks of a year: 53 when 1 January is a Thursday, or a
\* Wednesday of a leap year
WeeksInYear(y) ==
    LET jan1 == DayOfWeek(DaysFromCivil(y, 1, 1))
        leap == ValidCivil(y, 2, 29)
    IN IF jan1 = 4 \/ (leap /\ jan1 = 3) THEN 53 ELSE 52

\* assigning .value of an <input type="week">: a string that is no valid
\* week string is replaced by the empty string
WeekInputValue(v) ==
    IF v.t = "week" /\ v.y >= 1 /\ v.w \in 1..WeeksInYear(v.y) THEN v ELSE Empty

\* simple.setDate(simple.getDate() - day + (day === 0 ? -6 : 1))
mondayOfWeekOf(simple) ==
    JSDate(getFullYear(simple), getMonth(simple),
           getDate(simple) - getDay(simple)
           + (IF getDay(simple) = 0 THEN -6 ELSE 1))

\* getDateFromISOWeek(isoWeek): a Date (local midnight) or Null
getDateFromISOWeek(isoWeek) ==
    IF ~Truthy(isoWeek) THEN Null
    ELSE DateVal(mondayOfWeekOf(JSDate(isoWeek.y, 0, 1 + (isoWeek.w - 1) * 7)))

---------------------------------------------------------------------------
(* Classification *)

\* getJobTypeFullName(acronym): the later declaration of the two is the one
\* in force
jobTypeMap ==
    [acronym \in {"C", "P", "CM", "PM", "OPS", "INSP", "BDN", "SOP", "KPI",
                  "Eng", "Sup", "Tech", "S", "I", "O", "U"} |->
        CASE acronym = "C" -> "Corrective"
          [] acronym = "P" -> "Planning"
          [] acronym = "CM" -> "Corrective Maintenance"
          [] acronym = "PM" -> "Preventive Maintenance"
          [] acronym = "OPS" -> "Operation"
          [] acronym = "INSP" -> "Inspection"
          [] acronym = "BDN" -> "Breakdown"
          [] acronym = "SOP" -> "Standard Operating Procedure"
          [] acronym = "KPI" -> "Key Performance Indicator"
          [] acronym = "Eng" -> "Engineer"
          [] acronym = "Sup" -> "Supervisor"
          [] acronym = "Tech" -> "Technician"
          [] acronym = "S" -> "Safety"
          [] acronym = "I" -> "Inspection"
          [] acronym = "O" -> "Accedint"
          [] acronym = "U" -> "Unplanned"]

getJobTypeFullName(acronym) ==
    IF acronym \in DOMAIN jobTypeMap THEN jobTypeMap[acronym] ELSE acronym

\* the obs codes of statusMap, by numeric code
statusObs ==
    <<[code |-> 0, obs |-> "TEM", description |-> "Template"],
      [code |-> 1, obs |-> "PAS", description |-> "Passive"],
      [code |-> 2, obs |-> "ORD", description |-> "Job ordered"],
      [code |-> 3, obs |-> "INI", description |-> "Job Initial status - Default"],
      [code |-> 4, obs |-> "LAT", description |-> "Looked at"],
      [code |-> 5, obs |-> "RDY", description |-> "Job ready for execution"],
      [code |-> 6, obs |-> "IPG", description |-> "Job in progress"],
      [code |-> 7, obs |-> "STP", description |-> "Job stopped"],
      [code |-> 8, obs |-> "WSP", description |-> "Waiting for spare parts"],
      [code |-> 9, obs |-> "RNF", description |-> "Registration not finished"],
      [code |-> 10, obs |-> "FIN", description |-> "Technically finished"],
      [code |-> 50, obs |-> "WPP", description |-> "Pending spare parts PSTL"],
      [code |-> 55, obs |-> "WSL", description |-> "Pending spare parts LCT"],
      [code |-> 60, obs |-> "ODE", description |-> "Ops Delay"],
      [code |-> 65, obs |-> "WFT", description |-> "Tools/Service equipment"],
      [code |-> 70, obs |-> "ITS", description |-> "IT Support"]>>

\* getJobStatusFullName(code) for a string code: the entry whose obs is the
\* code, else the code itself as obs and description
getJobStatusFullName(code) ==
    IF \E i \in 1..Len(statusObs) : statusObs[i].obs = code
    THEN [obs |-> code,
          description |-> statusObs[CHOOSE j \in 1..Len(statusObs) :
                                       statusObs[j].obs = code].description]
    ELSE [obs |-> code, description |-> code]

STS == <<"S","T","S">>
SPR == <<"S","P","R">>
SPS == <<"S","P","S">>

\* a faulty variant of getEquipmentType that looks for a spreader first
getEquipmentTypeSpreaderFirst(moKey) ==
    IF ~Truthy(moKey) THEN "Other"
    ELSE IF includes(toUpperCase(moKey.v), SPS)
            \/ includes(toUpperCase(moKey.v), SPR) THEN "Spreader"
    ELSE IF includes(toUpperCase(moKey.v), STS) THEN "STS Crane"
    ELSE "Other"

\* getEquipmentType(moKey)
getEquipmentType(moKey) ==
    IF ~Truthy(moKey) THEN "Other"
    ELSE LET k == toUpperCase(moKey.v)
         IN IF includes(k, STS) THEN "STS Crane"
            ELSE IF includes(k, SPS) \/ includes(k, SPR) THEN "Spreader"
            ELSE "Other"

\* the ordered infix checks of getFaultLocation
faultLocationRules ==
    <<[label |-> "HOIST", subs |-> <<<<"M","N","H">>>>],
      [label |-> "BOOM", subs |-> <<<<"B","M","H">>>>],
      [label |-> "SPREADER", subs |-> <<<<"H","D","B">>>>],
      [label |-> "GANTRY", subs |-> <<<<"G","A","N">>>>],
      [label |-> "ELECTRICAL", subs |-> <<<<"E","L","E">>>>],
      [label |-> "TROLLEY", subs |-> <<<<"T","R","L">>>>],
      [label |-> "LIGHTING", subs |-> <<<<"L","I","G">>>>],
      [label |-> "OPERATOR CABIN", subs |-> <<<<"C","A","B">>>>],
      [label |-> "HYDRAULIC", subs |-> <<<<"H","Y","D">>>>],
      [label |-> "FESTOON", subs |-> <<<<"F","E","S">>>>],
      [label |-> "ELEVATOR", subs |-> <<<<"E","L","V">>>>],
      [label |-> "TLS", subs |-> <<<<"T","R","M">>, <<"T","L","S">>>>],
      [label |-> "Machine room", subs |-> <<<<"S","L","E">>>>]>>

\* a faulty variant that looks only for the last substring of each rule
MatchingLastSubstring(rules, d) ==
    {i \in 1..Len(rules) : includes(d, rules[i].subs[Len(rules[i].subs)])}

\* the rules of a table that a text matches
Matching(rules, d) ==
    {i \in 1..Len(rules) :
        \E j \in 1..Len(rules[i].subs) : includes(d, rules[i].subs[j])}

\* a faulty variant in which the last matching rule wins
LastMatch(rules, d, default) ==
    IF Matching(rules, d) = {} THEN default
    ELSE rules[Max(Matching(rules, d))].label

\* the first matching rule's label, or the default
FirstMatch(rules, d, default) ==
    IF Matching(rules, d) = {} THEN default
    ELSE rules[Min(Matching(rules, d))].label

\* getFaultLocation(moKey)
getFaultLocation(moKey) ==
    IF ~Truthy(moKey) THEN "Other"
    ELSE FirstMatch(faultLocationRules, toUpperCase(moKey.v), "Other")

\* the ordered checks of determineFailure
failureRules == <<
    [label |-> "twin",
     subs |-> <<<<"T","W","I","N">>>>],
    [label |-> "Telescopy",
     subs |-> <<<<"T","E","L","E","S","C">>>>],
    [label |-> "Mech fail",
     subs |-> <<<<"N","O","I","S","E">>,
          <<"D","A","M","A","G","E">>,
          <<"B","R","U","I","T">>,
          <<"E","N","D","O","M","M","A">>,
          <<"V","I","B","R","E">>>>],
    [label |-> "A/C",
     subs |-> <<<<"A","C"," ","F","A","U","L","T">>>>],
    [label |-> "operator seat",
     subs |-> <<<<"S","I","E_GRAVE","G","E">>,
          <<"S","E","A","T">>>>],
    [label |-> "Crane off",
     subs |-> <<<<"C","R","A","N","E"," ","O","F">>>>],
    [label |-> "Drive Off",
     subs |-> <<<<"D","R","I","V","E"," ","O","F">>,
          <<"C","O","N","T","R","O","L"," ","O","F">>,
          <<"C","O","N","T","R","O","L","E"," ","O","F">>,
          <<"A","L","M">>>>],
    [label |-> "Power cut off",
     subs |-> <<<<"P","O","W","E","R">>>>],
    [label |-> "spreader ready intrlck",
     subs |-> <<<<"R","O","O","F">>,
          <<"T","T","D","S">>,
          <<"S","P","R","E","A","D","E","R"," ","R","E","A","D","Y">>>>],
    [label |-> "Incident_Dommage",
     subs |-> <<<<"D","O","M","M","A","G","E">>>>],
    [label |-> "Hoist service brake",
     subs |-> <<<<"H","O","I","S","T"," ","B","R","A","K","E">>,
          <<"H","O","I","S","T"," ","S","E","R","V","I","C","E"," ","B","R","A","K","E">>>>],
    [label |-> "Hoist Emergency brake",
     subs |-> <<<<"H","O","I","S","T"," ","E","M","E","R","G">>>>],
    [label |-> "Headblock",
     subs |-> <<<<"H","D","B">>,
          <<"H","E","A","D","B","L","O","C","K">>>>],
    [label |-> "Festoon",
     subs |-> <<<<"F","E","S","T","O","O","N">>>>],
    [label |-> "Hoist slowdown",
     subs |-> <<<<"H","O","I","S","T"," ","S","L","O","W">>>>],
    [label |-> "Display",
     subs |-> <<<<"A","F","F","I","C","H","E","U","R">>>>],
    [label |-> "Gantry drive",
     subs |-> <<<<"G","A","N","T","R","Y"," ","D","R","I","V","E">>>>],
    [label |-> "Gantry position",
     subs |-> <<<<"G","A","N","T","R","Y"," ","P","O","S","I","T","I","O","N">>>>],
    [label |-> "Gantry wheel brake",
     subs |-> <<<<"G","A","N","T","R","Y"," ","W","H","E","E","L">>>>],
    [label |-> "Gantry brake",
     subs |-> <<<<"G","A","N","T","R","Y"," ","B","R","A","K","E">>>>],
    [label |-> "Gantry encoder",
     subs |-> <<<<"G","A","N","T","R","Y"," ","E","N","C","O","D","E","R">>>>],
    [label |-> "Gantry motor",
     subs |-> <<<<"G","A","N","T","R","Y"," ","M","O","T","O","R">>>>],
    [label |-> "Trolley drive",
     subs |-> <<<<"T","R","O","L","L","E","Y"," ","D","R","I","V","E">>>>],
    [label |-> "Trolley position",
     subs |-> <<<<"T","R","O","L","L","E","Y"," ","P","O","S","I","T","I","O","N">>>>],
    [label |-> "Trolley brake",
     subs |-> <<<<"T","R","O","L","L","E","Y"," ","B","R","A","K","E">>>>],
    [label |-> "Trolley gate",
     subs |-> <<<<"T","R","O","L","L","E","Y"," ","G","A","T","E">>>>],
    [label |-> "Trolley rope tension",
     subs |-> <<<<"T","R","O","L","L","E","Y"," ","R","O","P","E">>>>],
    [label |-> "hoist drive",
     subs |-> <<<<"H","O","I","S","T"," ","D","R","I","V","E">>>>],
    [label |-> "hoist position",
     subs |-> <<<<"H","O","I","S","T"," ","P","O","S","I","T","I","O","N">>>>],
    [label |-> "hoist wire rope",
     subs |-> <<<<"H","O","I","S","T"," ","W","I","R","E">>>>],
    [label |-> "Hoist brake",
     subs |-> <<<<"H","O","I","S","T"," ","B","R","A","K","E">>>>],
    [label |-> "Hoist encoder",
     subs |-> <<<<"H","O","I","S","T"," ","E","N","C","O","D","E","R">>>>],
    [label |-> "Hoist motor",
     subs |-> <<<<"H","O","I","S","T"," ","M","O","T","O","R">>>>],
    [label |-> "GCR",
     subs |-> <<<<"G","C","R">>>>],
    [label |-> "SCR",
     subs |-> <<<<"S","C","R">>,
          <<"S","P","R","E","A","D","E","R"," ","C","A","B","L","E"," ","R","E","E","L">>>>],
    [label |-> "Stuck",
     subs |-> <<<<"B","A","D"," ","S","T","A","C","K">>,
          <<"C","O","I","N","C">>,
          <<"S","P","R","E","A","D","E","R"," ","B","L","O","Q","U","E_ACUTE">>,
          <<"S","P","R","E","A","D","E","R"," ","A","C","C","R","O","C","H","E_ACUTE">>,
          <<"S","T","U","C","K">>>>],
    [label |-> "Communication",
     subs |-> <<<<"B","L","I","N","K"," ","F","A","U","L","T">>,
          <<"C","O","M","M","U","N","I","C","A">>,
          <<"C","O","M","U","N","I","C","A">>,
          <<"L","I","G","H","T"," ","B","L","I","N","K">>>>],
    [label |-> "Boom Drive",
     subs |-> <<<<"B","O","O","M"," ","I","S","S","U","E">>,
          <<"B","O","O","M"," ","F","A","U","L","T">>,
          <<"B","O","O","M"," ","I","N","V">>>>],
    [label |-> "Boom position",
     subs |-> <<<<"B","O","O","M"," ","L","E","V","E","L">>,
          <<"B","O","O","M"," ","D","O","W","N">>,
          <<"B","O","O","M"," ","U","P">>,
          <<"N","O"," ","B","O","O","M">>>>],
    [label |-> "TLS fault",
     subs |-> <<<<"T","L","S">>>>],
    [label |-> "spreader change",
     subs |-> <<<<"C","H","A","N","G","E">>,
          <<"C","H","A","N","G","E","M","E","N","T">>>>],
    [label |-> "Joystick fault",
     subs |-> <<<<"J","O","Y","S","T","I","C","K">>,
          <<"J","O","Y","S","T","I">>>>],
    [label |-> "spreader plug",
     subs |-> <<<<"C","O","N","N","E","C","T","O","R">>,
          <<"P","L","U","G">>>>],
    [label |-> "oil leakage",
     subs |-> <<<<"F","U","I","T","E"," ","D","'","H","U","I","L","E">>,
          <<"O","I","L"," ","L","E","A","K">>>>],
    [label |-> "Lock/unlock",
     subs |-> <<<<"D","E_ACUTE","V","E_ACUTE","R","R","O","U">>,
          <<"V","E_ACUTE","R","R","O","U">>,
          <<"L","O","C","K"," ","F","A","U","L","T">>,
          <<"U","N","L","O","C","K">>,
          <<"U","N","L","O","P","K">>,
          <<"L","O","C","K","I","N","G"," ","F","A","U","L","T">>>>],
    [label |-> "Flipper",
     subs |-> <<<<"F","L","I","P","P","E","R">>>>],
    [label |-> "Telescopic",
     subs |-> <<<<"T","E","L","E","S","C","O","P">>,
          <<"T","E","L","E","C","O">>,
          <<"T","E","L","S","C","O">>>>],
    [label |-> "Light",
     subs |-> <<<<"L","I","G","H","T","S">>,
          <<"L","I","G","H","T">>,
          <<"L","I","G","H","T"," ","F","A","U","L","T">>,
          <<"L","I","G","H","T"," ","I","S","S","U","E">>,
          <<"L","I","G","H","T"," ","O","F","F">>,
          <<"L","A","M","P","E">>,
          <<"F","L","O","O","D","L","I","G","H","T">>>>],
    [label |-> "spreader pump",
     subs |-> <<<<"P","O","M","P","E"," ","S","P","R","E","A","D","E","R">>,
          <<"S","P","R","E","A","D","E","R"," ","P","U","M","P">>,
          <<"P","U","M","P">>>>]
>>

\* String.prototype.trim, for the blank
RECURSIVE trim(_)
trim(s) ==
    IF s = <<>> THEN s
    ELSE IF s[1] = " " THEN trim(Tail(s))
    ELSE IF s[Len(s)] = " " THEN trim(SubSeq(s, 1, Len(s) - 1))
    ELSE s

\* a faulty variant of determineFailure that matches the text as written,
\* in whatever case
determineFailureCaseSensitive(cause) ==
    IF cause = <<>> THEN ""
    ELSE FirstMatch(failureRules, trim(cause), "")

\* determineFailure(cause): a label, or "" for null
determineFailure(cause) ==
    IF cause = <<>> THEN ""
    ELSE FirstMatch(failureRules, toUpperCase(trim(cause)), "")

\* where /SPR(\d+)/i can match: an "SPR" that a digit follows
sprMatches(k) ==
    {i \in 1..(Len(k) - 3) : SubSeq(k, i, i + 2) = SPR /\ IsDigit(k[i + 3])}

\* the digits (\d+) takes after the "SPR" at i: every digit that follows
sprDigits(k, i) ==
    SubSeq(k, i + 3,
           CHOOSE e \in (i + 3)..Len(k) :
               /\ \A x \in (i + 3)..e : IsDigit(k[x])
               /\ (e = Len(k) \/ ~IsDigit(k[e + 1])))

\* a faulty variant of the range test that keeps the two ends of the range
validSpreaderNumberInclusive(number) == number <= 100 \/ number >= 200

\* number < 100 || number > 200
validSpreaderNumber(number) == number < 100 \/ number > 200

\* isValidSpreaderNumber(spreaderName): the regular expression matches at
\* the leftmost place it can
isValidSpreaderNumber(spreaderName) ==
    /\ sprMatches(toUpperCase(spreaderName)) # {}
    /\ validSpreaderNumber(parseIntDigits(
           sprDigits(toUpperCase(spreaderName),
                     Min(sprMatches(toUpperCase(spreaderName))))))

---------------------------------------------------------------------------
(* Count tables: a JavaScript object used as a map from keys to counts is a
   sequence of [key, count] entries in insertion order *)

Keys(table) == {table[i].key : i \in 1..Len(table)}

\* table[key] = (table[key] || 0) + 1
Increment(table, key) ==
    IF key \in Keys(table)
    THEN [i \in 1..Len(table) |->
            IF table[i].key = key
            THEN [key |-> key, count |-> table[i].count + 1]
            ELSE table[i]]
    ELSE Append(table, [key |-> key, count |-> 1])

\* keys.forEach(key => table[key] = (table[key] || 0) + 1)
RECURSIVE CountKeys(_)
CountKeys(keys) ==
    IF keys = <<>> THEN <<>>
    ELSE Increment(CountKeys(SubSeq(keys, 1, Len(keys) - 1)), keys[Len(keys)])

\* the property keys explored that are canonical array indices, each with
\* the index it spells
ArrayIndexOf == ("7" :> 7) @@ ("10" :> 10)
IsArrayIndex(key) == key \in DOMAIN ArrayIndexOf

\* the entries Object.entries lists before a new property of an object:
\* the array indices come first, in ascending order, then the other keys
\* in the order of their creation
entriesBefore(table, key) ==
    IF IsArrayIndex(key)
    THEN Cardinality({i \in 1..Len(table) :
             /\ IsArrayIndex(table[i].key)
             /\ ArrayIndexOf[table[i].key] < ArrayIndexOf[key]})
    ELSE Len(table)

\* table[key] = (table[key] || 0) + 1 on an object whose keys are strings
\* of any spelling
IncrementProperty(table, key) ==
    IF key \in Keys(table) THEN Increment(table, key)
    ELSE SubSeq(table, 1, entriesBefore(table, key))
         \o <<[key |-> key, count |-> 1]>>
         \o SubSeq(table, entriesBefore(table, key) + 1, Len(table))

RECURSIVE CountProperties(_)
CountProperties(keys) ==
    IF keys = <<>> THEN <<>>
    ELSE IncrementProperty(CountProperties(SubSeq(keys, 1, Len(keys) - 1)),
                           keys[Len(keys)])

\* a field that is not set (undefined) is the empty string; x || default
OrDefault(x, default) == IF x = "" THEN default ELSE x

\* an entry put after every entry of a sorted table whose count is at
\* least its own
insertByCount(sorted, e, n) ==
    SubSeq(sorted, 1, n) \o <<e>> \o SubSeq(sorted, n + 1, Len(sorted))

insertSorted(sorted, e) ==
    insertByCount(sorted, e,
        Cardinality({i \in 1..Len(sorted) : sorted[i].count >= e.count}))

\* entries.sort((a, b) => b[1] - a[1]): stable, by descending count
RECURSIVE SortByCountDesc(_)
SortByCountDesc(table) ==
    IF table = <<>> THEN <<>>
    ELSE insertSorted(SortByCountDesc(SubSeq(table, 1, Len(table) - 1)),
                      table[Len(table)])

\* entries.reduce((obj, [key, val]) => ({...obj, [key]: val}), {}): the
\* object of the entries, its keys distinct, as Object.entries lists it
putEntry(object, e) == insertByCount(object, e, entriesBefore(object, e.key))

RECURSIVE objectOfEntries(_)
objectOfEntries(entries) ==
    IF entries = <<>> THEN <<>>
    ELSE putEntry(objectOfEntries(SubSeq(entries, 1, Len(entries) - 1)),
                  entries[Len(entries)])

\* .slice(0, n)
Take(seq, n) == SubSeq(seq, 1, IF n < Len(seq) THEN n ELSE Len(seq))

\* the i-th items' field values, in order
Column(data, f) == [i \in 1..Len(data) |-> data[i][f]]

---------------------------------------------------------------------------
(* Row normalisation: processExcelWorkbook *)

RowFields == {"MO_key", "mo_key", "WO_key", "wo_key", "WO_name", "wo_name",
              "Description", "description", "Job_type", "job_type", "type",
              "Cost_purpose_key", "cost_purpose", "purpose",
              "Order_date", "Jobexec_dt"}

\* a row of sheet_to_json: the cells given, every other field undefined
Row(cells) ==
    [f \in RowFields |-> IF f \in DOMAIN cells THEN cells[f] ELSE Undefined]

Thrown(message) == [t |-> "error", message |-> message]

\* the EQ_name of an upper-cased equipment key, '' when out of scope
equipmentName(moKey) ==
    IF includes(moKey, STS) THEN slice0(moKey, 5)
    ELSE IF (includes(moKey, SPR) \/ includes(moKey, SPS))
            /\ isValidSpreaderNumber(moKey)
        THEN slice0(moKey, 6)
    ELSE <<>>

\* date ? formatToFrenchDate(date) : null
storedDate(date) == IF date # Null THEN formatToFrenchDate(date) ELSE Null

\* a date cell as the work order stores it
dateField(cell) ==
    storedDate(IF cell.t \notin {"undef", "null"}
               THEN parseFrenchDate(cell) ELSE Null)

\* the work order the row map returns for a row in scope; n is the text
\* of 280000 + index
workOrder(row, n, Jobstatus, EQ_name) ==
    [t |-> "wo",
     EQ_name |-> EQ_name,
     WO_key |-> Or(row.WO_key, Or(row.wo_key, Str(<<"W","O">> \o n))),
     WO_name |-> Or(row.WO_name, Or(row.wo_name,
                   Str(<<"W","o","r","k"," ","O","r","d","e","r"," ">> \o n))).v,
     Description |-> Or(row.Description, Or(row.description,
                   Str(<<"D","e","s","c","r","i","p","t","i","o","n"," ",
                         "f","o","r"," ","W","O"," ">> \o n))).v,
     MO_key |-> row.MO_key,
     Jobstatus |-> Jobstatus,
     EQ_type |-> getEquipmentType(row.MO_key),
     faultlocation |-> getFaultLocation(row.MO_key),
     Job_type |-> Or(row.Job_type, Or(row.job_type,
                     Or(row.type, Atom("Repair")))).v,
     Cost_purpose_key |-> Or(row.Cost_purpose_key, Or(row.cost_purpose,
                             Or(row.purpose, Atom("Corrective")))).v,
     Order_date |-> dateField(row.Order_date),
     Jobexec_dt |-> dateField(row.Jobexec_dt),
     \* set by processData
     JobstatusCode |-> "", JobstatusObs |-> "",
     JobstatusDescription |-> "", failure |-> ""]

\* the callback of combinedData.map: a work order, Null for a row of
\* equipment out of scope, or the TypeError of calling toUpperCase on an
\* equipment key that is not a string
normalizeRow(row, index, Jobstatus) ==
    IF ~Truthy(row.MO_key) THEN Null
    ELSE IF row.MO_key.t # "str"
        THEN Thrown("row.MO_key.toUpperCase is not a function")
    ELSE IF equipmentName(toUpperCase(row.MO_key.v)) = <<>> THEN Null
    ELSE workOrder(row, NumToChars(280000 + index), Jobstatus,
                   equipmentName(toUpperCase(row.MO_key.v)))

\* the rows of a sheet, each with a Jobstatus tag
taggedRows(rows, tag) == [i \in 1..Len(rows) |-> [row |-> rows[i], tag |-> tag]]

\* the tagged rows of the sheet of a name, none when there is no such sheet
sheetRows(workbook, name, tag) ==
    IF \E i \in 1..Len(workbook.sheets) : workbook.sheets[i].name = name
    THEN taggedRows(workbook.sheets[CHOOSE i \in 1..Len(workbook.sheets) :
                                       workbook.sheets[i].name = name].rows, tag)
    ELSE <<>>

\* the rows processExcelWorkbook combines: those of 'WO active' and of
\* 'WO history', else those of the first sheet
combinedRows(workbook) ==
    IF sheetRows(workbook, "WO active", "active")
       \o sheetRows(workbook, "WO history", "history") = <<>>
       /\ workbook.sheets # <<>>
    THEN taggedRows(workbook.sheets[1].rows, "active")
    ELSE sheetRows(workbook, "WO active", "active")
         \o sheetRows(workbook, "WO history", "history")

---------------------------------------------------------------------------
(* Aggregation: processData *)

Unknown == <<"U","n","k","n","o","w","n">>

\* a faulty variant that also writes the description of the status over
\* the status of the item
withJobStatusOverwritten(item, status) ==
    IF item.Jobstatus # ""
    THEN [item EXCEPT !.JobstatusCode = item.Jobstatus,
                      !.JobstatusObs = OrDefault(status.obs, "Unknown"),
                      !.JobstatusDescription =
                          OrDefault(status.description, "Unknown"),
                      !.Jobstatus = OrDefault(status.description, "Unknown")]
    ELSE item

\* the item with the fields of its job status
withJobStatus(item, status) ==
    IF item.Jobstatus # ""
    THEN [item EXCEPT !.JobstatusCode = item.Jobstatus,
                      !.JobstatusObs = OrDefault(status.obs, "Unknown"),
                      !.JobstatusDescription =
                          OrDefault(status.description, "Unknown")]
    ELSE item

\* the EQ_name processData gives an upper-cased equipment key
equipmentNameOfItem(moKey) ==
    IF includes(moKey, STS) THEN slice0(moKey, 5)
    ELSE IF includes(moKey, SPR) THEN slice0(moKey, 6)
    ELSE Unknown

\* the callback of data.map in processData, with its per-item catch
enrichItem(item) ==
    IF Truthy(item.MO_key) /\ item.MO_key.t # "str"
    \* item.MO_key.toUpperCase is not a function: the catch
    THEN [item EXCEPT !.JobstatusCode = item.Jobstatus,
                      !.JobstatusObs = "Unknown",
                      !.JobstatusDescription = "Unknown",
                      !.failure = "Unknown",
                      !.EQ_name = Unknown]
    ELSE [withJobStatus(item, getJobStatusFullName(item.Jobstatus)) EXCEPT
             !.EQ_name = IF ~Truthy(item.MO_key) THEN Unknown
                         ELSE equipmentNameOfItem(toUpperCase(item.MO_key.v)),
             !.failure = OrDefault(
                 determineFailure(item.WO_name \o <<" ">> \o item.Description),
                 "Unknown")]

\* a faulty variant that takes a work order for closed when it has an
\* order date
ClosedByOrderDate(data) == SelectSeq(data, LAMBDA wo : Truthy(wo.Order_date))

\* the work orders of a collection that have an execution date
Closed(data) == SelectSeq(data, LAMBDA wo : Truthy(wo.Jobexec_dt))

\* execDate - orderDate of work orders both of whose dates parse, in hours
processingTimes(dated) ==
    [i \in 1..Len(dated) |->
        parseFrenchDate(dated[i].Jobexec_dt).h
        - parseFrenchDate(dated[i].Order_date).h]

\* the processing times processData averages, in hours: one per closed work
\* order both of whose dates parse
validProcessingTimes(data) ==
    processingTimes(SelectSeq(Closed(data), LAMBDA wo :
        /\ parseFrenchDate(wo.Jobexec_dt) # Null
        /\ parseFrenchDate(wo.Order_date) # Null))

RECURSIVE Sum(_)
Sum(seq) == IF seq = <<>> THEN 0 ELSE seq[1] + Sum(Tail(seq))

\* a mean kept exact: the sum of the hours and the number of terms
\* (the mean in days is sum / (24 * n), and 0 when n = 0)
Mean(times) == [sum |-> Sum(times), n |-> Len(times)]

\* the chart buckets of a date field, one per work order
buckets(dated, f) == [i \in 1..Len(dated) |-> formatDateForChart(dated[i][f])]

\* the bucket table of a weekly series: the work orders that have the date
weekCounts(data, f) ==
    CountKeys(buckets(SelectSeq(data, LAMBDA wo : Truthy(wo[f])), f))

\* the first entry of a sorted table, or [fallback, 0]
Top(table, fallback) ==
    IF table = <<>> THEN [key |-> fallback, count |-> 0]
    ELSE SortByCountDesc(table)[1]

\* the count table of a field, a falsy value counted under the fallback
fieldCounts(data, f, fallback) ==
    CountProperties([i \in 1..Len(data) |-> OrDefault(data[i][f], fallback)])

\* kpis.top_job_type and kpis.top_status of the first table entries
topJobType(top) ==
    [obs |-> top.key, description |-> getJobTypeFullName(top.key),
     count |-> top.count]
topStatus(top) ==
    [obs |-> top.key, description |-> getJobStatusFullName(top.key).description,
     count |-> top.count]

\* the aggregates processData computes over the enriched collection
aggregate(data) ==
    [t |-> "result",
     data |-> data,
     kpis |-> [total_wo |-> Len(data),
               avg_processing_time |-> Mean(validProcessingTimes(data)),
               closed_count |-> Len(Closed(data)),
               waiting_count |-> Len(SelectSeq(data,
                                     LAMBDA wo : ~Truthy(wo.Jobexec_dt))),
               top_job_type |->
                   topJobType(Top(fieldCounts(data, "Job_type", "Unknown"),
                                  "None")),
               top_status |->
                   topStatus(Top(fieldCounts(data, "JobstatusObs", "Unknown"),
                                 "None"))],
     charts |-> [wo_created |-> weekCounts(data, "Order_date"),
                 wo_closed |-> weekCounts(data, "Jobexec_dt"),
                 eq_type_dist |-> fieldCounts(data, "EQ_type", "Other"),
                 wo_per_location |-> fieldCounts(data, "faultlocation", "Other"),
                 wo_per_cause |-> fieldCounts(data, "failure", "Unknown"),
                 status_dist |-> objectOfEntries(SortByCountDesc(
                     fieldCounts(data, "JobstatusObs", "Unknown"))),
                 job_type_dist |-> objectOfEntries(SortByCountDesc(
                     fieldCounts(data, "Job_type", "Unknown"))),
                 top_faults |-> objectOfEntries(Take(SortByCountDesc(
                     fieldCounts(data, "failure", "Unknown")), 10))]]

\* the try block of processData over the items that are objects
processObjects(objects) ==
    IF objects = <<>>
    THEN Thrown("Failed to process data: No valid data objects found in array")
    ELSE aggregate([i \in 1..Len(objects) |-> enrichItem(objects[i])])

\* a faulty variant of processData that aggregates whatever objects the
\* array holds, be there none
processDataUnguarded(data) ==
    IF ~Truthy(data) THEN Thrown("No data provided to process")
    ELSE IF data.t # "array" THEN Thrown("Data must be an array")
    ELSE aggregate([i \in 1..Len(SelectSeq(data.items, LAMBDA item : item.t = "wo")) |->
             enrichItem(SelectSeq(data.items, LAMBDA item : item.t = "wo")[i])])

\* processData(data): the result, or the error thrown
processData(data) ==
    IF ~Truthy(data) THEN Thrown("No data provided to process")
    ELSE IF data.t # "array" THEN Thrown("Data must be an array")
    ELSE IF data.items = <<>> THEN Thrown("Data array is empty")
    ELSE processObjects(SelectSeq(data.items, LAMBDA item : item.t = "wo"))

Array(items) == [t |-> "array", items |-> items]

\* the outer catch of processExcelWorkbook around processData
rethrown(resultData) ==
    IF resultData.t = "error" THEN Thrown("Error processing Excel data")
    ELSE resultData

\* the rows that survive the filter after the map, handed to processData
processValidRows(processedData) ==
    IF processedData = <<>>
    THEN Thrown("Error processing Excel data: No valid data rows found after processing")
    ELSE rethrown(processData(Array(processedData)))

\* the mapped rows: one that threw ends the whole map
processMappedRows(mapped) ==
    IF \E i \in 1..Len(mapped) : mapped[i].t = "error"
    THEN Thrown("Error processing Excel data: row.MO_key.toUpperCase is not a function")
    ELSE processValidRows(SelectSeq(mapped, LAMBDA x : x # Null))

\* the combined rows of the sheets, mapped by normalizeRow
processCombinedRows(combinedData) ==
    IF combinedData = <<>>
    THEN Thrown("Error processing Excel data: No data found in the Excel file")
    ELSE processMappedRows([i \in 1..Len(combinedData) |->
             normalizeRow(combinedData[i].row, i - 1, combinedData[i].tag)])

\* processExcelWorkbook(workbook): the result, or the error thrown
processExcelWorkbook(workbook) ==
    IF ~Truthy(workbook) \/ workbook.t # "workbook"
    THEN Thrown("Invalid workbook format")
    ELSE processCombinedRows(combinedRows(workbook))

---------------------------------------------------------------------------
(* The rows and inputs explored *)

\* longest sheet explored by the pipeline specification
MaxRows == 3

\* a crane work order, ordered on a Monday and executed the next day
RowHoist ==
    Row([MO_key |-> Str(<<"S","T","S","0","1","M","N","H">>), WO_name |-> Str(<<"H","O","I","S","T"," ","B","R","A","K","E">>),
         Job_type |-> Atom("C"),
         Order_date |-> Slash(4, 3, 2024), Jobexec_dt |-> Slash(5, 3, 2024)])
\* an open breakdown of a crane, lower-case key, ISO date (a Tuesday)
RowBoom ==
    Row([MO_key |-> Str(<<"s","t","s","0","2","b","m","h">>), Description |-> Str(<<"c","a","b","l","e"," ","c","u","t">>),
         Job_type |-> Atom("BDN"), Order_date |-> Iso(2024, 3, 5)])
\* a spreader in scope, order date no date at all, execution date an Excel
\* serial number (12/03/2024)
RowSpreader ==
    Row([MO_key |-> Str(<<"S","P","R","0","0","1">>), job_type |-> Atom("PM"),
         Order_date |-> Text, Jobexec_dt |-> Num(45363)])
\* an unplanned job closed before it was ordered, a week later
RowUnplanned ==
    Row([MO_key |-> Str(<<"S","T","S","0","3","T","R","L">>), WO_name |-> Str(<<"t","w","i","n">>),
         Job_type |-> Atom("U"),
         Order_date |-> Slash(13, 3, 2024), Jobexec_dt |-> Slash(11, 3, 2024)])
\* a spreader out of scope (number in 100..200)
RowSpreader150 == Row([MO_key |-> Str(<<"S","P","R","1","5","0">>), Job_type |-> Atom("C")])
\* a row whose equipment key cell is a number
RowNumericKey == Row([MO_key |-> Num(12345), Job_type |-> Atom("C")])
\* a row with no equipment key
RowNoKey == Row([WO_name |-> Str(<<"t","w","i","n">>)])

PipelineRows == {RowHoist, RowBoom, RowSpreader, RowSpreader150,
                 RowNumericKey, RowNoKey}

Sheet(name, rows) == [name |-> name, rows |-> rows]
Workbook(sheets) == [t |-> "workbook", sheets |-> sheets]
\* a value with no Sheets property
NotAWorkbook == [t |-> "object"]

SeqsUpTo(S, n) == UNION {[1..k -> S] : k \in 0..n}

\* what processExcelWorkbook is handed: one sheet of up to MaxRows rows,
\* named as the data sheet or not, or no workbook
WorkbookInputs ==
    {Workbook(<<Sheet(name, rows)>>) :
        name \in {"WO active", "Sheet1"}, rows \in SeqsUpTo(PipelineRows, MaxRows)}
    \cup {Workbook(<<Sheet("WO active", <<RowHoist>>),
                     Sheet("WO history", <<RowBoom>>)>>),
          Workbook(<<>>), NotAWorkbook, Null}

\* what processData is handed directly: no value, no array, arrays of work
\* orders and of things that are no objects
ItemInputs ==
    {normalizeRow(RowHoist, 0, "active"), normalizeRow(RowSpreader, 1, "history"),
     [normalizeRow(RowBoom, 2, "active") EXCEPT !.MO_key = Num(7)],
     Num(1), Null}
DataInputs ==
    {Array(items) : items \in SeqsUpTo(ItemInputs, MaxRows - 1)}
    \cup {Null, Undefined, NotAWorkbook, Num(0)}

---------------------------------------------------------------------------
(* The period line *)

\* the Dates (hours) of a field of a collection that parse
parsedDates(data, f) ==
    {parseFrenchDate(data[i][f]).h :
        i \in {j \in 1..Len(data) : parseFrenchDate(data[j][f]) # Null}}

NoData == Atom("No data")

\* "${formatToFrenchDate(min)} - ${formatToFrenchDate(max)}" or 'No data'
periodText(dates) ==
    IF dates = {} THEN NoData
    ELSE [t |-> "period", from |-> formatToFrenchDate(DateVal(Min(dates))),
                          to |-> formatToFrenchDate(DateVal(Max(dates)))]

\* updateTimePeriodInfo(data): the text of #orderPeriod and #execPeriod
updateTimePeriodInfo(data) ==
    [orderPeriod |-> periodText(parsedDates(data, "Order_date")),
     execPeriod |-> periodText(parsedDates(data, "Jobexec_dt"))]

---------------------------------------------------------------------------
(* The page as served (src/index.html) *)

\* offsets of local time from UTC explored (hours)
TimeZones == {-5, 0}

WeekInputIds == {"orderStartDate", "orderEndDate", "execStartDate", "execEndDate"}
\* the multi-selects of the filter form; the page has no jobStatusSelect
SelectIds == {"eqTypeSelect", "faultLocationSelect", "jobTypeSelect",
              "costPurposeSelect", "failureSelect"}

InitPage ==
    /\ tz \in TimeZones
    /\ currentData = Null
    /\ currentView = "general"
    /\ weekInputs = [id \in WeekInputIds |-> Empty]
    /\ selects = [id \in SelectIds |-> [options |-> <<>>, selected |-> {}]]
    /\ equipmentSelect = "all"
    /\ kpiSection = Null
    /\ chartSection = Null
    /\ faultsTable = Null
    /\ equipmentAnalysis = Null
    /\ periodInfo = [orderPeriod |-> NoData, execPeriod |-> NoData]
    /\ reading = {}
    /\ nextLoad = 0
    /\ lastEvent = [handler |-> "none", filters |-> Null, file |-> Null]

---------------------------------------------------------------------------
(* The pipeline on its own: each input is handed to the function once *)

Call(fn, arg) == [fn |-> fn, arg |-> arg]

InitPipeline ==
    /\ InitPage
    /\ pipeIn \in {Call("processExcelWorkbook", w) : w \in WorkbookInputs}
                  \cup {Call("processData", d) : d \in DataInputs}
    /\ pipeOut = Null

\* processExcelWorkbook(pipeIn.arg); on success it has written the period line
RunProcessExcelWorkbook ==
    /\ pipeIn.fn = "processExcelWorkbook"
    /\ pipeOut = Null
    /\ pipeOut' = processExcelWorkbook(pipeIn.arg)
    /\ periodInfo' = IF pipeOut'.t = "result"
                     THEN updateTimePeriodInfo(pipeOut'.data) ELSE periodInfo
    /\ UNCHANGED <<tz, currentData, currentView, weekInputs, selects,
                   equipmentSelect, kpiSection, chartSection, faultsTable,
                   equipmentAnalysis, reading, nextLoad, lastEvent, pipeIn>>

\* processData(pipeIn.arg)
RunProcessData ==
    /\ pipeIn.fn = "processData"
    /\ pipeOut = Null
    /\ pipeOut' = processData(pipeIn.arg)
    /\ UNCHANGED <<tz, currentData, currentView, weekInputs, selects,
                   equipmentSelect, kpiSection, chartSection, faultsTable,
                   equipmentAnalysis, periodInfo, reading, nextLoad, lastEvent,
                   pipeIn>>

NextPipeline == RunProcessExcelWorkbook \/ RunProcessData

SpecPipeline == InitPipeline /\ [][NextPipeline]_vars

---------------------------------------------------------------------------
(* The functions on their own: each is applied once to each input *)

\* the equipment keys explored: cranes and spreaders of every numbering,
\* keys of both families, of none, and one key for each fault infix
EquipmentKeys ==
    {<<"S","T","S","0","1","M","N","H">>,
     <<"s","t","s","0","2","b","m","h">>,
     <<"S","T","S","G","0","0","0","1","M","N","H","0","0","2">>,
     <<"S","T","S">>,
     <<"S","T","S","S","P","R","1","5","0">>,
     <<"S","P","R","1","5","0","S","T","S">>,
     <<"S","T","S","0","5","T","R","L","E","L","E">>,
     <<"S","T","S","0","6","T","L","S">>,
     <<"S","T","S","0","7","T","R","M">>,
     <<"S","T","S","0","8","S","L","E","T","L","S">>,
     <<"S","T","S","0","9","L","I","G">>,
     <<"S","T","S","1","0","C","A","B">>,
     <<"S","T","S","1","1","F","E","S">>,
     <<"S","T","S","1","2","E","L","V">>,
     <<"S","P","R","0","5","0","A","B","C">>,
     <<"S","P","R","1","5","0","A","B","C">>,
     <<"S","P","R","0","9","9">>,
     <<"S","P","R","1","0","0">>,
     <<"S","P","R","2","0","0">>,
     <<"S","P","R","2","0","1">>,
     <<"s","p","r","0","0","1","h","d","b">>,
     <<"S","P","R","X">>,
     <<"S","P","R">>,
     <<"S","P","S","0","0","1">>,
     <<"S","P","S","S","P","R","3","0","0","H","Y","D">>,
     <<"Q","C","S","P","R","7","G","A","N">>,
     <<"A","B","C","1","2">>,
     <<"R","T","G","0","1","M","N","H">>}

\* a sheet of two rows: a crane row, then a row with the equipment key
KeyBook(cells) ==
    Workbook(<<Sheet("WO active", <<RowHoist, Row(cells)>>)>>)

KeyBooks ==
    {KeyBook([MO_key |-> Str(k), Job_type |-> Atom("C")]) : k \in EquipmentKeys}
    \cup {KeyBook([mo_key |-> Str(<<"S","T","S","0","1">>)]),
          KeyBook([MO_key |-> Str(<<>>)]), KeyBook([MO_key |-> Null])}

\* a crane job ordered and executed on the same day
RowSameDay ==
    Row([MO_key |-> Str(<<"S","T","S","0","4","G","A","N">>), Job_type |-> Atom("C"),
         Order_date |-> Slash(6, 3, 2024), Jobexec_dt |-> Slash(6, 3, 2024)])

\* open jobs whose type is a numeric code, written 7 and 10
RowCode7 ==
    Row([MO_key |-> Str(<<"S","T","S","0","5","E","L","E">>), Job_type |-> Atom("7")])
RowCode10 ==
    Row([MO_key |-> Str(<<"S","T","S","0","6","C","A","B">>), Job_type |-> Atom("10")])

\* longest collection handed to processData on its own
MaxItems == 3

\* the work orders aggregated: closed a day after the order, open, closed
\* with an order date that is no date, closed two days before the order,
\* closed on the day of the order, two of a numeric job type, and one whose
\* status is a code of the status table
AggregatedItems ==
    {normalizeRow(RowHoist, 0, "active"), normalizeRow(RowBoom, 1, "active"),
     normalizeRow(RowSpreader, 2, "history"),
     normalizeRow(RowUnplanned, 3, "history"),
     normalizeRow(RowSameDay, 4, "active"),
     normalizeRow(RowCode7, 5, "active"), normalizeRow(RowCode10, 6, "active"),
     [normalizeRow(RowSameDay, 7, "active") EXCEPT !.Jobstatus = "RDY"]}

AggregatedInputs == {Array(items) : items \in SeqsUpTo(AggregatedItems, MaxItems)}

\* the strings DD/MM/YYYY and YYYY-MM-DD of the calendar day numbered z
SlashOfDay(z) ==
    Slash(CivilFromDays(z).d, CivilFromDays(z).m, CivilFromDays(z).y)
IsoOfDay(z) ==
    Iso(CivilFromDays(z).y, CivilFromDays(z).m, CivilFromDays(z).d)

\* the days charted: the three weeks around 1 January 2025, from Monday 23
\* December 2024 to Sunday 12 January 2025
ChartDays == DaysFromCivil(2024, 12, 23)..DaysFromCivil(2025, 1, 12)

\* the days parsed: around a leap day, a turn of the year and mid-March
ParsedDays ==
    (DaysFromCivil(2024, 2, 27)..DaysFromCivil(2024, 3, 2))
    \cup (DaysFromCivil(2024, 12, 30)..DaysFromCivil(2025, 1, 2))
    \cup {DaysFromCivil(2024, 3, 15)}

\* the texts classified: the emergency brake alone, in lower case, with the
\* substring of an earlier and of a later rule, texts of other rules, of two
\* rules, of none, and the empty text
FailureTexts ==
    {<<"H","O","I","S","T"," ","E","M","E","R","G">>,
     <<"h","o","i","s","t"," ","e","m","e","r","g","e","n","c","y"," ","b","r","a","k","e">>,
     <<"H","O","I","S","T"," ","E","M","E","R","G"," ","P","O","W","E","R">>,
     <<"H","o","i","s","t"," ","e","m","e","r","g"," ","b","r","a","k","e"," ","n","o","i","s","e">>,
     <<"H","O","I","S","T"," ","E","M","E","R","G"," ","H","O","I","S","T"," ","S","L","O","W">>,
     <<"H","O","I","S","T"," ","B","R","A","K","E">>,
     <<"H","O","I","S","T"," ","M","O","T","O","R">>,
     <<"c","a","b","l","e"," ","c","u","t">>,
     <<"T","E","L","E","S","C","O","P","I","C">>,
     <<"L","I","G","H","T"," ","B","L","I","N","K">>,
     <<"G","A","N","T","R","Y"," ","D","R","I","V","E"," ","A","L","M">>,
     <<" "," ","T","L","S"," "," ">>,
     <<"P","U","M","P">>,
     <<>>}

\* the names and the descriptions of the work orders classified
FailureNames ==
    {<<"H","O","I","S","T">>, <<"h","o","i","s","t"," ","e","m","e","r","g">>, <<"c","a","b","l","e">>, <<>>}
FailureDescriptions ==
    {<<"B","R","A","K","E">>, <<"p","o","w","e","r">>, <<"c","u","t">>, <<"H","O","I","S","T"," ","S","L","O","W">>}

\* one work order of a name and a description
FailureItem(name, description) ==
    [normalizeRow(RowHoist, 0, "active") EXCEPT
        !.WO_name = name, !.Description = description]

\* the names of a collection of twelve work orders of eleven causes, the
\* last cause twice
ManyCauses ==
    <<<<"T","W","I","N">>,
      <<"T","E","L","E","S","C">>,
      <<"N","O","I","S","E">>,
      <<"A","C"," ","F","A","U","L","T">>,
      <<"S","E","A","T">>,
      <<"C","R","A","N","E"," ","O","F">>,
      <<"A","L","M">>,
      <<"P","O","W","E","R">>,
      <<"R","O","O","F">>,
      <<"D","O","M","M","A","G","E">>,
      <<"H","D","B">>,
      <<"H","D","B">>>>

ManyCausesInput ==
    Array([i \in 1..Len(ManyCauses) |-> FailureItem(ManyCauses[i], <<"x">>)])

FailureInputs ==
    {Array(<<FailureItem(n, d)>>) : n \in FailureNames, d \in FailureDescriptions}
    \cup {ManyCausesInput}

\* the years whose weeks are converted: 1 January falls on every day of
\* the week among them
WeekYears == 2020..2027

\* the valid week strings of those years
WeekStrings ==
    {Week(p[1], p[2]) :
        p \in {q \in WeekYears \X (1..53) : q[2] <= WeeksInYear(q[1])}}

FunctionCalls ==
    {Call("processExcelWorkbook", w) : w \in KeyBooks}
    \cup {Call("processData", d) : d \in AggregatedInputs \cup FailureInputs}
    \cup {Call("determineFailure", text) : text \in FailureTexts}
    \cup {Call("getDateFromISOWeek", k) : k \in WeekStrings}
    \cup {Call("formatDateForChart", <<SlashOfDay(a), SlashOfDay(b)>>) :
              a \in ChartDays, b \in ChartDays}
    \cup {Call("parseFrenchDate", <<IsoOfDay(z), SlashOfDay(z)>>) :
              z \in ParsedDays}
    \cup {Call("getEquipmentType", Str(k)) : k \in EquipmentKeys}
    \cup {Call("getFaultLocation", Str(k)) : k \in EquipmentKeys}

InitFunctions ==
    /\ InitPage
    /\ pipeIn \in FunctionCalls
    /\ pipeOut = Null

\* what a function returned that is no collection
Returned(value) == [t |-> "value", v |-> value]

\* getEquipmentType(pipeIn.arg)
RunGetEquipmentType ==
    /\ pipeIn.fn = "getEquipmentType"
    /\ pipeOut = Null
    /\ pipeOut' = Returned(getEquipmentType(pipeIn.arg))
    /\ UNCHANGED <<tz, currentData, currentView, weekInputs, selects,
                   equipmentSelect, kpiSection, chartSection, faultsTable,
                   equipmentAnalysis, periodInfo, reading, nextLoad, lastEvent,
                   pipeIn>>

\* getFaultLocation(pipeIn.arg)
RunGetFaultLocation ==
    /\ pipeIn.fn = "getFaultLocation"
    /\ pipeOut = Null
    /\ pipeOut' = Returned(getFaultLocation(pipeIn.arg))
    /\ UNCHANGED <<tz, currentData, currentView, weekInputs, selects,
                   equipmentSelect, kpiSection, chartSection, faultsTable,
                   equipmentAnalysis, periodInfo, reading, nextLoad, lastEvent,
                   pipeIn>>

\* formatDateForChart of each of the date strings of pipeIn.arg
RunFormatDateForChart ==
    /\ pipeIn.fn = "formatDateForChart"
    /\ pipeOut = Null
    /\ pipeOut' = Returned([i \in 1..Len(pipeIn.arg) |->
                                formatDateForChart(pipeIn.arg[i])])
    /\ UNCHANGED <<tz, currentData, currentView, weekInputs, selects,
                   equipmentSelect, kpiSection, chartSection, faultsTable,
                   equipmentAnalysis, periodInfo, reading, nextLoad, lastEvent,
                   pipeIn>>

\* parseFrenchDate of each of the date strings of pipeIn.arg
RunParseFrenchDate ==
    /\ pipeIn.fn = "parseFrenchDate"
    /\ pipeOut = Null
    /\ pipeOut' = Returned([i \in 1..Len(pipeIn.arg) |->
                                parseFrenchDate(pipeIn.arg[i])])
    /\ UNCHANGED <<tz, currentData, currentView, weekInputs, selects,
                   equipmentSelect, kpiSection, chartSection, faultsTable,
                   equipmentAnalysis, periodInfo, reading, nextLoad, lastEvent,
                   pipeIn>>

\* determineFailure(pipeIn.arg), null returned as ""
RunDetermineFailure ==
    /\ pipeIn.fn = "determineFailure"
    /\ pipeOut = Null
    /\ pipeOut' = Returned(determineFailure(pipeIn.arg))
    /\ UNCHANGED <<tz, currentData, currentView, weekInputs, selects,
                   equipmentSelect, kpiSection, chartSection, faultsTable,
                   equipmentAnalysis, periodInfo, reading, nextLoad, lastEvent,
                   pipeIn>>

\* processData once more, over the collection it was handed or over the
\* collection it returned
RunProcessDataAgain ==
    /\ pipeIn.fn = "processData"
    /\ pipeOut # Null
    /\ pipeOut.t = "result"
    /\ \E again \in {pipeIn.arg, Array(pipeOut.data)} :
           /\ pipeIn' = Call("processData", again)
           /\ pipeOut' = processData(again)
    /\ UNCHANGED <<tz, currentData, currentView, weekInputs, selects,
                   equipmentSelect, kpiSection, chartSection, faultsTable,
                   equipmentAnalysis, periodInfo, reading, nextLoad, lastEvent>>

\* the Date of a week string and the week number of that Date
weekRoundTrip(date) == [date |-> date, week |-> getWeekNumber(date.h)]

\* getDateFromISOWeek(pipeIn.arg), then getWeekNumber of the Date
RunGetDateFromISOWeek ==
    /\ pipeIn.fn = "getDateFromISOWeek"
    /\ pipeOut = Null
    /\ pipeOut' = Returned(weekRoundTrip(getDateFromISOWeek(pipeIn.arg)))
    /\ UNCHANGED <<tz, currentData, currentView, weekInputs, selects,
                   equipmentSelect, kpiSection, chartSection, faultsTable,
                   equipmentAnalysis, periodInfo, reading, nextLoad, lastEvent,
                   pipeIn>>

\* startDate && endDate ? endDate - startDate : 0, in hours
generalProcessingTime(wo) ==
    IF parseFrenchDate(wo.Order_date) # Null
       /\ parseFrenchDate(wo.Jobexec_dt) # Null
    THEN parseFrenchDate(wo.Jobexec_dt).h - parseFrenchDate(wo.Order_date).h
    ELSE 0

\* the processing times renderGeneralKPIs averages: those of the closed
\* work orders that are above 0
generalProcessingTimes(closedWOs) ==
    SelectSeq([i \in 1..Len(closedWOs) |-> generalProcessingTime(closedWOs[i])],
              LAMBDA time : time > 0)

\* what renderGeneralKPIs computes of a collection
renderGeneralKPIs(data) ==
    [total |-> Len(data),
     closed |-> Len(Closed(data)),
     waiting |-> Len(data) - Len(Closed(data)),
     avgProcessingTime |-> Mean(generalProcessingTimes(Closed(data)))]

\* renderGeneralKPIs(currentData.data) of the result processData returned
RunRenderGeneralKPIs ==
    /\ pipeIn.fn = "processData"
    /\ pipeOut # Null
    /\ pipeOut.t = "result"
    /\ pipeIn' = Call("renderGeneralKPIs", pipeOut)
    /\ pipeOut' = Returned(renderGeneralKPIs(pipeOut.data))
    /\ UNCHANGED <<tz, currentData, currentView, weekInputs, selects,
                   equipmentSelect, kpiSection, chartSection, faultsTable,
                   equipmentAnalysis, periodInfo, reading, nextLoad, lastEvent>>

NextFunctions ==
    \/ RunProcessExcelWorkbook
    \/ RunProcessData
    \/ RunGetEquipmentType
    \/ RunGetFaultLocation
    \/ RunFormatDateForChart
    \/ RunParseFrenchDate
    \/ RunDetermineFailure
    \/ RunProcessDataAgain
    \/ RunGetDateFromISOWeek
    \/ RunRenderGeneralKPIs

SpecFunctions == InitFunctions /\ [][NextFunctions]_vars

---------------------------------------------------------------------------
(* The filter *)

\* what a filter handler reads from the form: the four week values and the
\* selected options of the six selects (getElementById('jobStatusSelect')
\* is null on this page, so selectedStatuses is [])
readFilters(inputs, sel) ==
    [orderStartDate |-> inputs.orderStartDate,
     orderEndDate |-> inputs.orderEndDate,
     execStartDate |-> inputs.execStartDate,
     execEndDate |-> inputs.execEndDate,
     selectedJobTypes |-> sel.jobTypeSelect.selected,
     selectedStatuses |-> {},
     selectedLocations |-> sel.faultLocationSelect.selected,
     selectedEquipment |-> sel.eqTypeSelect.selected,
     selectedPurposes |-> sel.costPurposeSelect.selected,
     selectedFailures |-> sel.failureSelect.selected]

\* value ? getDateFromISOWeek(value) : null
weekBound(value) == IF Truthy(value) THEN getDateFromISOWeek(value) ELSE Null

\* bound && itemDate && itemDate < bound
before(itemDate, bound) ==
    bound # Null /\ itemDate # Null /\ itemDate.h < bound.h
\* bound && itemDate && itemDate > bound
after(itemDate, bound) ==
    bound # Null /\ itemDate # Null /\ itemDate.h > bound.h

\* the four date checks of the callback, on the parsed dates of the item
passesDateBounds(itemOrderDate, itemExecDate, f) ==
    /\ ~before(itemOrderDate, weekBound(f.orderStartDate))
    /\ ~after(itemOrderDate, weekBound(f.orderEndDate))
    /\ ~before(itemExecDate, weekBound(f.execStartDate))
    /\ ~after(itemExecDate, weekBound(f.execEndDate))

\* a faulty variant of passesFilters that forgets the job type criterion
passesFiltersNoJobType(item, f) ==
    /\ passesDateBounds(parseFrenchDate(item.Order_date),
                        parseFrenchDate(item.Jobexec_dt), f)
    /\ ~(f.selectedStatuses # {} /\ item.JobstatusObs \notin f.selectedStatuses)
    /\ ~(f.selectedLocations # {} /\ item.faultlocation \notin f.selectedLocations)
    /\ ~(f.selectedEquipment # {} /\ item.EQ_type \notin f.selectedEquipment)
    /\ ~(f.selectedPurposes # {} /\ item.Cost_purpose_key \notin f.selectedPurposes)
    /\ ~(f.selectedFailures # {} /\ item.failure \notin f.selectedFailures)

\* a faulty variant of passesFilters in which an empty selection of job
\* types matches no work order
passesFiltersEmptyRejects(item, f) ==
    /\ passesDateBounds(parseFrenchDate(item.Order_date),
                        parseFrenchDate(item.Jobexec_dt), f)
    /\ item.Job_type \in f.selectedJobTypes
    /\ ~(f.selectedStatuses # {} /\ item.JobstatusObs \notin f.selectedStatuses)
    /\ ~(f.selectedLocations # {} /\ item.faultlocation \notin f.selectedLocations)
    /\ ~(f.selectedEquipment # {} /\ item.EQ_type \notin f.selectedEquipment)
    /\ ~(f.selectedPurposes # {} /\ item.Cost_purpose_key \notin f.selectedPurposes)
    /\ ~(f.selectedFailures # {} /\ item.failure \notin f.selectedFailures)

\* the callback of currentData.data.filter in applyFilters and in the
\* submit handler of the form
passesFilters(item, f) ==
    /\ passesDateBounds(parseFrenchDate(item.Order_date),
                        parseFrenchDate(item.Jobexec_dt), f)
    /\ ~(f.selectedJobTypes # {} /\ item.Job_type \notin f.selectedJobTypes)
    /\ ~(f.selectedStatuses # {} /\ item.JobstatusObs \notin f.selectedStatuses)
    /\ ~(f.selectedLocations # {} /\ item.faultlocation \notin f.selectedLocations)
    /\ ~(f.selectedEquipment # {} /\ item.EQ_type \notin f.selectedEquipment)
    /\ ~(f.selectedPurposes # {} /\ item.Cost_purpose_key \notin f.selectedPurposes)
    /\ ~(f.selectedFailures # {} /\ item.failure \notin f.selectedFailures)

\* currentData.data.filter(...) of the two filter handlers
filterData(data, f) == SelectSeq(data, LAMBDA item : passesFilters(item, f))

\* the filter of the equipment dropdown's change handler
equipmentFilter(data, selectedEquipment) ==
    SelectSeq(data, LAMBDA item :
        IF selectedEquipment = "STS"
        THEN Truthy(item.MO_key) /\ includes(toUpperCase(item.MO_key.v), STS)
        ELSE IF selectedEquipment = "SPR"
        THEN /\ Truthy(item.MO_key)
             /\ includes(toUpperCase(item.MO_key.v), SPR)
             /\ isValidSpreaderNumber(toUpperCase(item.MO_key.v))
        ELSE TRUE)

---------------------------------------------------------------------------
(* The form controls *)

\* "${date.getFullYear()}-W${String(getWeekNumber(date)).padStart(2, '0')}"
weekString(date) == Week(getFullYear(date), getWeekNumber(date))

\* the four week inputs set to the first and last week of the dates
weekRange(dates, inputs) ==
    IF dates = {} THEN inputs
    ELSE [orderStartDate |-> WeekInputValue(weekString(Min(dates))),
          orderEndDate |-> WeekInputValue(weekString(Max(dates))),
          execStartDate |-> WeekInputValue(weekString(Min(dates))),
          execEndDate |-> WeekInputValue(weekString(Max(dates)))]

\* setupDateRanges(data): the four week inputs after it, from the order
\* dates alone
setupDateRanges(data, inputs) ==
    weekRange(parsedDates(data, "Order_date"), inputs)

\* if (!input.value) input.value = week, when there are dates
fillWeek(value, dates, week) ==
    IF dates # {} /\ ~Truthy(value) THEN WeekInputValue(week) ELSE value

\* the week inputs filled from the order dates and the execution dates
filledWeeks(inputs, orderDates, execDates) ==
    [orderStartDate |-> fillWeek(inputs.orderStartDate, orderDates,
                                 weekString(Min(orderDates))),
     orderEndDate |-> fillWeek(inputs.orderEndDate, orderDates,
                               weekString(Max(orderDates))),
     execStartDate |-> fillWeek(inputs.execStartDate, execDates,
                                weekString(Min(execDates))),
     execEndDate |-> fillWeek(inputs.execEndDate, execDates,
                              weekString(Max(execDates)))]

\* updateDateFilters(data): an input that is empty is given the first
\* (last) week of the data shown
updateDateFilters(data, inputs) ==
    filledWeeks(inputs, parsedDates(data, "Order_date"),
                parsedDates(data, "Jobexec_dt"))

\* a value appended unless it is falsy or already there
appendNew(rest, v) ==
    IF v = "" \/ \E i \in 1..Len(rest) : rest[i] = v
    THEN rest ELSE Append(rest, v)

\* [...new Set(values.filter(Boolean))]: the distinct values, first
\* occurrence first
RECURSIVE unique(_)
unique(values) ==
    IF values = <<>> THEN <<>>
    ELSE appendNew(unique(SubSeq(values, 1, Len(values) - 1)),
                   values[Len(values)])

Range(seq) == {seq[i] : i \in 1..Len(seq)}

\* the field of the work orders that each select lists
selectField ==
    [eqTypeSelect |-> "EQ_type", faultLocationSelect |-> "faultlocation",
     jobTypeSelect |-> "Job_type", costPurposeSelect |-> "Cost_purpose_key",
     failureSelect |-> "failure"]

\* a select listing the options, all of them selected
allSelected(options) == [options |-> options, selected |-> Range(options)]

\* populateDropdowns(data): every select lists the values of its field,
\* all of them selected
populateDropdowns(data) ==
    [id \in SelectIds |-> allSelected(unique(Column(data, selectField[id])))]

---------------------------------------------------------------------------
(* The dashboard sections.  A section that shows aggregates of a collection
   is recorded as the function that rendered it and the collection it was
   handed; the top-fault table is recorded as its rows. *)

Rendered(render, data) == [render |-> render, data |-> data]

\* the KPI and chart renderers of a view
kpiRenderer(view) ==
    CASE view = "general" -> "renderGeneralKPIs"
      [] view = "corrective" -> "renderCorrectiveKPIs"
      [] view = "breakdown" -> "renderBreakdownKPIs"
chartRenderer(view) ==
    CASE view = "general" -> "renderGeneralCharts"
      [] view = "corrective" -> "renderCorrectiveCharts"
      [] view = "breakdown" -> "renderBreakdownCharts"

\* the rows updateCharts hands to renderTopFaults: the ten most frequent
\* failure labels of the collection
topFaults(data) ==
    LET labelled == SelectSeq(data, LAMBDA item : item.failure # "")
    IN Take(SortByCountDesc(CountKeys(Column(labelled, "failure"))), 10)

\* updateCharts(filteredData): the period line, the equipment analysis, the
\* KPIs and charts of the current view, the top-fault table when there is
\* any data, and the empty week inputs; inputs is the week inputs' content
\* when it runs
updateCharts(filteredData, inputs) ==
    /\ periodInfo' = updateTimePeriodInfo(filteredData)
    /\ equipmentAnalysis' = Rendered("renderEquipmentAnalysis", filteredData)
    /\ kpiSection' = Rendered(kpiRenderer(currentView), filteredData)
    /\ chartSection' = Rendered(chartRenderer(currentView), filteredData)
    /\ faultsTable' = IF Len(filteredData) > 0
                      THEN topFaults(filteredData) ELSE faultsTable
    /\ weekInputs' = updateDateFilters(filteredData, inputs)

\* the collections the Corrective and Breakdown buttons aggregate
correctiveData(data) ==
    SelectSeq(data, LAMBDA item : item.Job_type \in {"C", "CM", "INSP"})
breakdownData(data) ==
    SelectSeq(data, LAMBDA item : item.Job_type \in {"BDN", "U"})

---------------------------------------------------------------------------
(* The user's edits of the filter form.  No listener is attached to the
   controls (setupFilterListeners is never called): an edit changes the
   control only, and is seen when a handler next reads the form.  The edits
   explored are those below, made just before the handler runs. *)

WeekEdits == {"keep", "clear", "orderW10", "orderFromW11", "execW10toW11"}
SelectEdits == {"keep", "none", "jobTypes", "cranes"}

\* the edits of the week inputs and of the selects made together before a
\* submit
FormEdits ==
    {<<"keep", "keep">>, <<"clear", "none">>, <<"orderW10", "keep">>,
     <<"orderFromW11", "cranes">>, <<"execW10toW11", "jobTypes">>}

W10 == Week(2024, 10)
W11 == Week(2024, 11)

editWeeks(e) ==
    CASE e = "keep" -> weekInputs
      [] e = "clear" -> [id \in WeekInputIds |-> Empty]
      [] e = "orderW10" ->
            [orderStartDate |-> W10, orderEndDate |-> W10,
             execStartDate |-> Empty, execEndDate |-> Empty]
      [] e = "orderFromW11" ->
            [orderStartDate |-> W11, orderEndDate |-> Empty,
             execStartDate |-> Empty, execEndDate |-> Empty]
      [] e = "execW10toW11" ->
            [orderStartDate |-> Empty, orderEndDate |-> Empty,
             execStartDate |-> W10, execEndDate |-> W11]

\* the options of a select among those wanted
pick(id, wanted) == wanted \cap Range(selects[id].options)

editSelects(e) ==
    CASE e = "keep" -> selects
      [] e = "none" -> [id \in SelectIds |-> [selects[id] EXCEPT !.selected = {}]]
      [] e = "jobTypes" ->
            [selects EXCEPT !.jobTypeSelect.selected = pick("jobTypeSelect", {"C", "BDN"})]
      [] e = "cranes" ->
            [selects EXCEPT !.jobTypeSelect.selected = pick("jobTypeSelect", {"C", "BDN"}),
                            !.eqTypeSelect.selected = pick("eqTypeSelect", {"STS Crane"})]

---------------------------------------------------------------------------
(* The dashboard: loads *)

\* number of loads started in a behaviour
MaxLoads == 2

BookA == Workbook(<<Sheet("WO active", <<RowHoist, RowBoom, RowSpreader>>)>>)
BookB == Workbook(<<Sheet("WO active", <<RowUnplanned>>),
                    Sheet("WO history", <<RowHoist, RowSpreader150>>)>>)
\* a workbook one of whose rows has a numeric equipment key
BookNumericKey == Workbook(<<Sheet("WO active", <<RowHoist, RowNumericKey>>)>>)

Files == {BookA, BookB, BookNumericKey}

\* reads in flight at once
MaxReading == 2

\* submit of the upload form with a file chosen: a FileReader starts
uploadFormSubmit(file) ==
    /\ nextLoad < MaxLoads
    /\ Cardinality(reading) < MaxReading
    /\ nextLoad' = nextLoad + 1
    /\ reading' = reading \cup {[load |-> nextLoad + 1, file |-> file]}
    /\ UNCHANGED <<tz, currentData, currentView, weekInputs, selects,
                   equipmentSelect, kpiSection, chartSection, faultsTable,
                   equipmentAnalysis, periodInfo, lastEvent, pipeIn, pipeOut>>

\* the start-up timer, a second after the page is ready: WO.xlsx is
\* fetched and, the fetch having answered 200, a FileReader starts on it;
\* its onload is that of an upload but for the way an error is shown
autoLoadTimeout(file) ==
    /\ nextLoad = 0
    /\ nextLoad' = 1
    /\ reading' = reading \cup {[load |-> 1, file |-> file]}
    /\ UNCHANGED <<tz, currentData, currentView, weekInputs, selects,
                   equipmentSelect, kpiSection, chartSection, faultsTable,
                   equipmentAnalysis, periodInfo, lastEvent, pipeIn, pipeOut>>

\* a faulty variant of the body of reader.onload that drops the held
\* collection when the load fails
showLoadedClearing(result, file) ==
    IF result.t = "error"
    THEN /\ lastEvent' = [lastEvent EXCEPT !.handler = "onloadError"]
         /\ currentData' = Null
         /\ UNCHANGED <<weekInputs, selects, kpiSection, chartSection,
                        faultsTable, periodInfo>>
    ELSE /\ periodInfo' = updateTimePeriodInfo(result.data)
         /\ currentData' = result
         /\ kpiSection' = Rendered("renderKPIs", result.data)
         /\ chartSection' = Rendered("renderCharts", result.data)
         /\ faultsTable' = result.charts.top_faults
         /\ selects' = populateDropdowns(result.data)
         /\ weekInputs' = setupDateRanges(result.data, weekInputs)
         /\ lastEvent' = [handler |-> "onload", filters |-> Null,
                          file |-> file]

\* the body of reader.onload once processExcelWorkbook has returned or
\* thrown
showLoaded(result, file) ==
    IF result.t = "error"
    THEN \* alert('Error processing Excel data: ...')
         /\ lastEvent' = [lastEvent EXCEPT !.handler = "onloadError"]
         /\ UNCHANGED <<currentData, weekInputs, selects, kpiSection,
                        chartSection, faultsTable, periodInfo>>
    ELSE /\ periodInfo' = updateTimePeriodInfo(result.data)
         /\ currentData' = result
         /\ kpiSection' = Rendered("renderKPIs", result.data)
         /\ chartSection' = Rendered("renderCharts", result.data)
         /\ faultsTable' = result.charts.top_faults
         /\ selects' = populateDropdowns(result.data)
         /\ weekInputs' = setupDateRanges(result.data, weekInputs)
         /\ lastEvent' = [handler |-> "onload", filters |-> Null,
                          file |-> file]

\* reader.onload of a read in flight
readerOnload(r) ==
    /\ r \in reading
    /\ reading' = reading \ {r}
    /\ \E result \in {processExcelWorkbook(r.file)} : showLoaded(result, r.file)
    /\ UNCHANGED <<tz, currentView, equipmentSelect, equipmentAnalysis,
                   nextLoad, pipeIn, pipeOut>>

\* click on the export button: the held collection is written to a file;
\* nothing is stored and nothing on the page is drawn again
exportBtnClick ==
    /\ currentData # Null
    /\ Len(currentData.data) # 0
    /\ UNCHANGED vars

---------------------------------------------------------------------------
(* The dashboard: views *)

\* what the three analysis buttons leave alone
viewFrame ==
    UNCHANGED <<tz, currentData, weekInputs, selects, equipmentSelect,
                faultsTable, equipmentAnalysis, periodInfo, reading, nextLoad,
                pipeIn, pipeOut>>

generalAnalysisBtnClick ==
    /\ currentData # Null
    /\ currentView' = "general"
    /\ kpiSection' = Rendered("renderGeneralKPIs", currentData.data)
    /\ chartSection' = Rendered("renderGeneralCharts", currentData.data)
    /\ lastEvent' = [lastEvent EXCEPT !.handler = "generalAnalysisBtn"]
    /\ viewFrame

correctiveAnalysisBtnClick ==
    /\ currentData # Null
    /\ currentView' = "corrective"
    /\ kpiSection' = Rendered("renderCorrectiveKPIs", correctiveData(currentData.data))
    /\ chartSection' = Rendered("renderCorrectiveCharts", correctiveData(currentData.data))
    /\ lastEvent' = [lastEvent EXCEPT !.handler = "correctiveAnalysisBtn"]
    /\ viewFrame

breakdownAnalysisBtnClick ==
    /\ currentData # Null
    /\ currentView' = "breakdown"
    /\ kpiSection' = Rendered("renderBreakdownKPIs", breakdownData(currentData.data))
    /\ chartSection' = Rendered("renderBreakdownCharts", breakdownData(currentData.data))
    /\ lastEvent' = [lastEvent EXCEPT !.handler = "breakdownAnalysisBtn"]
    /\ viewFrame

---------------------------------------------------------------------------
(* The dashboard: filters *)

\* what the filter handlers leave alone
filterFrame ==
    UNCHANGED <<tz, currentData, currentView, equipmentSelect, reading,
                nextLoad, pipeIn, pipeOut>>

\* the filtered collection shown by a filter handler: updateCharts, and
\* in applyFilters the KPIs of the current view once more from the same
\* data
showFiltered(handler, f, inputs) ==
    /\ updateCharts(filterData(currentData.data, f), inputs)
    /\ lastEvent' = [lastEvent EXCEPT !.handler = handler, !.filters = f]

\* a faulty variant of the submit handler that keeps the filtered
\* collection as the held one
filtersFormSubmitInPlace(we, se) ==
    /\ currentData # Null
    /\ showFiltered("filtersForm",
                    readFilters(editWeeks(we), editSelects(se)), editWeeks(we))
    /\ selects' = editSelects(se)
    /\ currentData' = [currentData EXCEPT !.data =
           filterData(currentData.data,
                      readFilters(editWeeks(we), editSelects(se)))]
    /\ UNCHANGED <<tz, currentView, equipmentSelect, reading, nextLoad,
                   pipeIn, pipeOut>>

\* submit of the filter form, the user having edited it
filtersFormSubmit(we, se) ==
    /\ currentData # Null
    /\ showFiltered("filtersForm",
                    readFilters(editWeeks(we), editSelects(se)), editWeeks(we))
    /\ selects' = editSelects(se)
    /\ filterFrame

\* applyFilters() with the form holding the given values
applyFilters(inputs, sel) ==
    /\ currentData # Null
    /\ showFiltered("applyFilters", readFilters(inputs, sel), inputs)
    /\ selects' = sel
    /\ filterFrame

\* click on a Select All button: every option of its select is selected
selectAllClick(id) ==
    applyFilters(weekInputs,
                 [selects EXCEPT ![id].selected = Range(selects[id].options)])

\* click on a Clear All button: no option of its select is selected
clearAllClick(id) ==
    applyFilters(weekInputs, [selects EXCEPT ![id].selected = {}])

\* change of the equipment dropdown
equipmentSelectChange(value) ==
    /\ value # equipmentSelect
    /\ equipmentSelect' = value
    /\ IF currentData = Null
       THEN UNCHANGED <<weekInputs, kpiSection, chartSection, faultsTable,
                        equipmentAnalysis, periodInfo, lastEvent>>
       ELSE /\ updateCharts(equipmentFilter(currentData.data, value), weekInputs)
            /\ lastEvent' = [lastEvent EXCEPT !.handler = "equipmentSelect"]
    /\ UNCHANGED <<tz, currentData, currentView, selects, reading, nextLoad,
                   pipeIn, pipeOut>>

\* change of the theme selector, or click on the dark-mode toggle: the
\* sections are drawn again from the whole collection
themeChange ==
    /\ currentData # Null
    /\ updateCharts(currentData.data, weekInputs)
    /\ lastEvent' = [lastEvent EXCEPT !.handler = "setTheme"]
    /\ UNCHANGED <<tz, currentData, currentView, selects, equipmentSelect,
                   reading, nextLoad, pipeIn, pipeOut>>

---------------------------------------------------------------------------
(* The dashboard specification *)

\* offsets of local time from UTC the dashboard is explored in
DashboardZones == {0}

Init ==
    /\ InitPage
    /\ tz \in DashboardZones
    /\ pipeIn = Null
    /\ pipeOut = Null

\* the selects whose Select All and Clear All buttons are clicked
ButtonSelects == {"jobTypeSelect"}

\* the options of the equipment dropdown that are chosen
EquipmentChoices == {"all", "STS"}

Next ==
    \/ \E file \in Files : autoLoadTimeout(file)
    \/ \E file \in Files : uploadFormSubmit(file)
    \/ \E r \in reading : readerOnload(r)
    \/ generalAnalysisBtnClick
    \/ correctiveAnalysisBtnClick
    \/ breakdownAnalysisBtnClick
    \/ \E e \in FormEdits : filtersFormSubmit(e[1], e[2])
    \/ \E id \in ButtonSelects : selectAllClick(id)
    \/ \E id \in ButtonSelects : clearAllClick(id)
    \/ \E value \in EquipmentChoices : equipmentSelectChange(value)
    \/ themeChange
    \/ exportBtnClick

Spec == Init /\ [][Next]_vars

---------------------------------------------------------------------------
(* Properties of the dashboard *)

ViewButtons == {"generalAnalysisBtn", "correctiveAnalysisBtn",
                "breakdownAnalysisBtn"}
FilterHandlers == {"filtersForm", "applyFilters"}

\* the work orders a view switch or a filter change has just aggregated
aggregated == kpiSection.data
\* the collection a filter handler has just computed and handed on
filtered == equipmentAnalysis.data

Retained(item) == \E i \in 1..Len(filtered) : filtered[i] = item

\* the six category criteria: the selection read and the field it is about
Categories ==
    {<<"selectedJobTypes", "Job_type">>, <<"selectedStatuses", "JobstatusObs">>,
     <<"selectedLocations", "faultlocation">>, <<"selectedEquipment", "EQ_type">>,
     <<"selectedPurposes", "Cost_purpose_key">>, <<"selectedFailures", "failure">>}

\* every category with a non-empty selection lists the value of the order
MeetsCategories(item, f) ==
    \A c \in Categories : f[c[1]] = {} \/ item[c[2]] \in f[c[1]]

\* C1: after a view switch that follows a filter change, no aggregated
\* work order is rejected by the active filter criteria: each meets the
\* category criteria applied last, which the selects still hold
C1_ViewSwitchAggregatesFiltered ==
    (/\ lastEvent.handler \in ViewButtons
     /\ lastEvent.filters # Null
     /\ \A c \in Categories : readFilters(weekInputs, selects)[c[1]]
                                  = lastEvent.filters[c[1]])
    => \A i \in 1..Len(aggregated) :
           MeetsCategories(aggregated[i], lastEvent.filters)

\* C2: a recomputation by a view switch or a filter change aggregates
\* only C, CM and INSP work orders in the Corrective view, only BDN and U
\* work orders in the Breakdown view, and the filtered collection as it is
\* in the General view
C2_ViewPredicateOnEveryRecomputation ==
    lastEvent.handler \in ViewButtons \cup FilterHandlers
    => /\ currentView = "corrective"
          => \A i \in 1..Len(aggregated) :
                 aggregated[i].Job_type \in {"C", "CM", "INSP"}
       /\ currentView = "breakdown"
          => \A i \in 1..Len(aggregated) :
                 aggregated[i].Job_type \in {"BDN", "U"}
       /\ (currentView = "general" /\ lastEvent.handler \in FilterHandlers)
          => aggregated = filterData(currentData.data, lastEvent.filters)

\* the date bounds as the handlers apply them
MeetsDateBounds(item, f) ==
    passesDateBounds(parseFrenchDate(item.Order_date),
                     parseFrenchDate(item.Jobexec_dt), f)

\* C3: a filter handler computes exactly the subsequence of the held
\* collection whose work orders meet every active criterion, a category
\* criterion being met when the value is one of those selected, and keeps
\* their order
C3_FilterIsConjunctiveSubsequence ==
    lastEvent.handler \in FilterHandlers
    => filtered = SelectSeq(currentData.data, LAMBDA item :
                      /\ MeetsDateBounds(item, lastEvent.filters)
                      /\ MeetsCategories(item, lastEvent.filters))

\* a filter change in which the job type selection alone rejects a work
\* order while another work order is retained
C3_Witness ==
    /\ lastEvent.handler \in FilterHandlers
    /\ filtered # <<>>
    /\ \E i \in 1..Len(currentData.data) :
          /\ MeetsDateBounds(currentData.data[i], lastEvent.filters)
          /\ lastEvent.filters.selectedJobTypes # {}
          /\ currentData.data[i].Job_type \notin lastEvent.filters.selectedJobTypes
          /\ currentData.data[i].EQ_type \in lastEvent.filters.selectedEquipment
          /\ ~Retained(currentData.data[i])

NoCriteria(f) ==
    /\ \A id \in WeekInputIds : f[id] = Empty
    /\ \A c \in Categories : f[c[1]] = {}

KeySet(data) == {data[i].WO_key : i \in 1..Len(data)}

\* C4: with the four date bounds empty and the six selections empty, a
\* filter handler computes a collection with the key set of the held one
C4_NoCriteriaKeepsKeySet ==
    (lastEvent.handler \in FilterHandlers /\ NoCriteria(lastEvent.filters))
    => KeySet(filtered) = KeySet(currentData.data)

\* a filter change with no criterion at all over several work orders
C4_Witness ==
    /\ lastEvent.handler \in FilterHandlers
    /\ NoCriteria(lastEvent.filters)
    /\ Cardinality(KeySet(currentData.data)) >= 2
    /\ Len(filtered) = Len(currentData.data)

OrderBoundActive(f) == Truthy(f.orderStartDate) \/ Truthy(f.orderEndDate)
ExecBoundActive(f) == Truthy(f.execStartDate) \/ Truthy(f.execEndDate)

\* C5: a work order without a parseable order (execution) date is not
\* retained when a bound on that date is active, and no date keeps a work
\* order out when no bound is active
C5_NullDateExcludedUnderBound ==
    lastEvent.handler \in FilterHandlers
    => \A i \in 1..Len(currentData.data) :
          /\ (/\ OrderBoundActive(lastEvent.filters)
              /\ parseFrenchDate(currentData.data[i].Order_date) = Null)
             => ~Retained(currentData.data[i])
          /\ (/\ ExecBoundActive(lastEvent.filters)
              /\ parseFrenchDate(currentData.data[i].Jobexec_dt) = Null)
             => ~Retained(currentData.data[i])
          /\ (/\ ~OrderBoundActive(lastEvent.filters)
              /\ ~ExecBoundActive(lastEvent.filters)
              /\ MeetsCategories(currentData.data[i], lastEvent.filters))
             => Retained(currentData.data[i])

\* the day number of the Monday of ISO week w of the year whose 4 January
\* is the day jan4
MondayOfIsoWeek(jan4, w) == jan4 - ((DayOfWeek(jan4) + 6) % 7) + 7 * (w - 1)

\* the date lies on or after the Monday of the start week and on or before
\* the Sunday of the end week, a bound left empty not counting
InWeekRange(date, start, end) ==
    /\ Truthy(start)
       => date.h >= 24 * MondayOfIsoWeek(DaysFromCivil(start.y, 1, 4), start.w)
    /\ Truthy(end)
       => date.h < 24 * (MondayOfIsoWeek(DaysFromCivil(end.y, 1, 4), end.w) + 7)

\* the date field of the work order is judged by a week range: it has a
\* date, or no bound on it is active
Dated(date, active) == date # Null \/ ~active

\* the date passes the range of weeks
InRange(date, start, end) == date = Null \/ InWeekRange(date, start, end)

\* C6: date bounds are inclusive week buckets: a work order that meets
\* the category criteria is retained exactly when each of its dates lies
\* from the Monday of the start week to the Sunday of the end week
C6_BoundsAreInclusiveWeeks ==
    lastEvent.handler \in FilterHandlers
    => \A i \in 1..Len(currentData.data) :
          (/\ MeetsCategories(currentData.data[i], lastEvent.filters)
           /\ Dated(parseFrenchDate(currentData.data[i].Order_date),
                    OrderBoundActive(lastEvent.filters))
           /\ Dated(parseFrenchDate(currentData.data[i].Jobexec_dt),
                    ExecBoundActive(lastEvent.filters)))
          => (Retained(currentData.data[i])
              <=> /\ InRange(parseFrenchDate(currentData.data[i].Order_date),
                             lastEvent.filters.orderStartDate,
                             lastEvent.filters.orderEndDate)
                  /\ InRange(parseFrenchDate(currentData.data[i].Jobexec_dt),
                             lastEvent.filters.execStartDate,
                             lastEvent.filters.execEndDate))

\* C7: no step other than the start or the completion of a load changes
\* the held collection: filter changes, view switches, the equipment
\* dropdown and the theme leave currentData as the load left it
C7_BaseCollectionIsFrame ==
    [][reading' = reading => currentData' = currentData]_vars

\* a view switch after a filter change that narrowed the collection, the
\* held collection being that of the load
C7_Witness ==
    /\ lastEvent.handler \in ViewButtons
    /\ lastEvent.filters # Null
    /\ Len(filtered) < Len(currentData.data)
    /\ currentData = processExcelWorkbook(lastEvent.file)

\* C8: once a load has completed, the held collection is the loaded one
\* and every section displayed shows aggregates of it, the KPIs being those
\* of the active view
C8_LoadInvalidatesAggregates ==
    lastEvent.handler = "onload"
    => /\ currentData = processExcelWorkbook(lastEvent.file)
       /\ kpiSection.data = currentData.data
       /\ chartSection.data = currentData.data
       /\ faultsTable = currentData.charts.top_faults
       /\ equipmentAnalysis # Null
          => equipmentAnalysis.data = currentData.data
       /\ periodInfo = updateTimePeriodInfo(currentData.data)

---------------------------------------------------------------------------
(* Properties of the pipeline *)

\* the rows a workbook hands to the pipeline
InputRows(workbook) == combinedRows(workbook)

\* the rows of the input that are normalised into a work order
ValidRows(rows) ==
    SelectSeq(rows, LAMBDA r :
        /\ Truthy(r.row.MO_key)
        /\ r.row.MO_key.t = "str"
        /\ normalizeRow(r.row, 0, r.tag) # Null)

\* an input with nothing to aggregate: no workbook, no rows, no row in
\* scope; no array, no items, no work order among the items
Degenerate(call) ==
    IF call.fn = "processExcelWorkbook"
    THEN \/ ~Truthy(call.arg)
         \/ call.arg.t # "workbook"
         \/ \A i \in 1..Len(InputRows(call.arg)) :
               /\ InputRows(call.arg)[i].row.MO_key.t \in {"str", "undef", "null"}
               /\ normalizeRow(InputRows(call.arg)[i].row, 0, "active") = Null
    ELSE \/ ~Truthy(call.arg)
         \/ call.arg.t # "array"
         \/ \A i \in 1..Len(call.arg.items) : call.arg.items[i].t # "wo"

\* C9: the pipeline throws on an input that is empty, is no sequence or
\* holds no valid row, and never returns aggregates of no work order
C9_DegenerateInputThrows ==
    pipeOut # Null
    => /\ Degenerate(pipeIn) => pipeOut.t = "error"
       /\ pipeOut.t = "result" => pipeOut.data # <<>>

\* the pipeline has run on a sheet of several rows none of which is in
\* scope, and on an array of items none of which is a work order
C9_Witness ==
    /\ pipeOut # Null
    /\ pipeOut.t = "error"
    /\ Degenerate(pipeIn)
    /\ pipeIn.fn = "processExcelWorkbook"
    /\ Truthy(pipeIn.arg)
    /\ pipeIn.arg.t = "workbook"
    /\ Len(InputRows(pipeIn.arg)) >= 2

\* C10: a load does not fail because of one malformed row: when the
\* sheet has a row in scope, the load returns a result that holds a work
\* order for every such row
C10_MalformedRowDoesNotFailLoad ==
    (/\ pipeOut # Null
     /\ pipeIn.fn = "processExcelWorkbook"
     /\ Truthy(pipeIn.arg)
     /\ pipeIn.arg.t = "workbook"
     /\ ValidRows(InputRows(pipeIn.arg)) # <<>>)
    => /\ pipeOut.t = "result"
       /\ Len(pipeOut.data) = Len(ValidRows(InputRows(pipeIn.arg)))

---------------------------------------------------------------------------
(* Normalisation keeps the equipment in scope *)

\* the number the digits ds form, read from the left
RECURSIVE DecimalValue(_)
DecimalValue(ds) ==
    IF ds = <<>> THEN 0
    ELSE 10 * DecimalValue(SubSeq(ds, 1, Len(ds) - 1)) + DigitValue(ds[Len(ds)])

\* the numbers formed by all the digits that immediately follow an "SPR"
\* of the key
SpreaderNumbers(k) ==
    {DecimalValue(SubSeq(k, i + 3, e)) :
        <<i, e>> \in {p \in (1..Len(k)) \X (1..Len(k)) :
            /\ p[1] + 3 <= p[2]
            /\ SubSeq(k, p[1], p[1] + 2) = SPR
            /\ \A x \in (p[1] + 3)..p[2] : IsDigit(k[x])
            /\ (p[2] = Len(k) \/ ~IsDigit(k[p[2] + 1]))}}

\* the rule of scope on an upper-cased key
InScope(k) ==
    \/ includes(k, STS)
    \/ /\ includes(k, SPR) \/ includes(k, SPS)
       /\ \E n \in SpreaderNumbers(k) : n < 100 \/ n > 200

\* the equipment name of a key in scope
NameInScope(k) ==
    SubSeq(k, 1, Min({Len(k), IF includes(k, STS) THEN 5 ELSE 6}))

\* the work orders a load of a two-row sheet must hold, the first row being
\* in scope, for the equipment key cell of the second row
KeptRows(cell) ==
    IF cell.t = "str" /\ InScope(toUpperCase(cell.v)) THEN 2 ELSE 1

NamedInScope(cell, data) ==
    Len(data) = 2 => data[2].EQ_name = NameInScope(toUpperCase(cell.v))

\* C11: a raw row is retained by normalisation if and only if its
\* equipment key, upper-cased, contains "STS", or contains "SPR" or "SPS"
\* and the digits immediately following "SPR" form a number below 100 or
\* above 200; every other row is dropped. A retained crane row is named by
\* the first 5 characters of the key, a retained spreader row by the first 6.
C11_RetainedIffInScope ==
    (pipeIn.fn = "processExcelWorkbook" /\ pipeOut # Null) =>
        /\ pipeOut.t = "result"
        /\ Len(pipeOut.data) = KeptRows(pipeIn.arg.sheets[1].rows[2].MO_key)
        /\ NamedInScope(pipeIn.arg.sheets[1].rows[2].MO_key, pipeOut.data)

\* the spreader SPR050ABC is retained under the name SPR050
C11_Witness ==
    /\ pipeIn.fn = "processExcelWorkbook"
    /\ pipeIn.arg.sheets[1].rows[2].MO_key
           = Str(<<"S","P","R","0","5","0","A","B","C">>)
    /\ pipeOut # Null
    /\ pipeOut.t = "result"
    /\ Len(pipeOut.data) = 2
    /\ pipeOut.data[2].EQ_name = <<"S","P","R","0","5","0">>

---------------------------------------------------------------------------
(* The aggregates of processData *)

\* execution date minus order date of a work order, in hours
Duration(wo) ==
    parseFrenchDate(wo.Jobexec_dt).h - parseFrenchDate(wo.Order_date).h

\* the closed work orders both of whose dates parse and whose execution is
\* not before the order
Timed(data) ==
    SelectSeq(data, LAMBDA wo :
        /\ wo.Jobexec_dt # Null
        /\ parseFrenchDate(wo.Jobexec_dt) # Null
        /\ parseFrenchDate(wo.Order_date) # Null
        /\ Duration(wo) >= 0)

\* the sum and the number of the durations of a collection
Durations(timed) ==
    [sum |-> Sum([i \in 1..Len(timed) |-> Duration(timed[i])]),
     n |-> Len(timed)]

\* processData has returned the aggregates of a collection
Aggregated == pipeIn.fn = "processData" /\ pipeOut # Null /\ pipeOut.t = "result"

\* C12: avg_processing_time is the mean of execution date minus order date
\* over exactly the closed work orders whose two dates parse and whose
\* difference is not negative: a work order with a date that does not parse
\* or with a negative difference adds nothing to the sum nor to the
\* divisor, and one closed on the day of its order is included.
C12_MeanOverNonNegativeDurations ==
    Aggregated =>
        pipeOut.kpis.avg_processing_time = Durations(Timed(pipeOut.data))

\* the work orders of a collection with an execution date, and without
WithExecutionDate(data) == {i \in 1..Len(data) : data[i].Jobexec_dt # Null}
WithoutExecutionDate(data) == {i \in 1..Len(data) : data[i].Jobexec_dt = Null}

\* C13: in every aggregated collection a work order is counted as closed
\* if and only if its execution date is not null and as pending otherwise:
\* the two counts add up to the total and no work order is in both.
C13_ClosedAndPendingPartition ==
    (pipeOut # Null /\ pipeOut.t = "result") =>
        /\ pipeOut.kpis.closed_count
               = Cardinality(WithExecutionDate(pipeOut.data))
        /\ pipeOut.kpis.waiting_count
               = Cardinality(WithoutExecutionDate(pipeOut.data))
        /\ pipeOut.kpis.closed_count + pipeOut.kpis.waiting_count
               = pipeOut.kpis.total_wo
        /\ pipeOut.kpis.total_wo = Len(pipeOut.data)

\* a collection of three work orders aggregated, closed and pending ones
C13_Witness ==
    /\ Aggregated
    /\ pipeOut.kpis.total_wo = 3
    /\ pipeOut.kpis.closed_count >= 1
    /\ pipeOut.kpis.waiting_count >= 1

---------------------------------------------------------------------------
(* Dates and week buckets *)

\* the day number of a date string, and the Monday of its ISO week
DayOf(dateStr) == DaysFromCivil(dateStr.y, dateStr.m, dateStr.d)
IsoMonday(dateStr) == DayOf(dateStr) - ((DayOf(dateStr) + 3) % 7)

\* week numbers that follow one another, the first week of a year
\* following the last of the year before
AdjacentWeeks(w1, w2) == w2 = w1 + 1 \/ (w2 = 1 /\ w1 \in {52, 53})

\* the buckets of two dates are those of one week, or of two weeks that
\* follow one another
StableBuckets(a, b, pair) ==
    /\ IsoMonday(a) = IsoMonday(b) => pair[1] = pair[2]
    /\ IsoMonday(b) = IsoMonday(a) + 7 => AdjacentWeeks(pair[1].w, pair[2].w)

\* C14: the week bucket is stable: any two dates of the same ISO week
\* (Monday to the following Sunday), weeks that straddle a turn of the year
\* included, have the identical bucket, and two dates on either side of a
\* week boundary have adjacent week numbers.
C14_SameWeekSameBucket ==
    (pipeIn.fn = "formatDateForChart" /\ pipeOut # Null) =>
        StableBuckets(pipeIn.arg[1], pipeIn.arg[2], pipeOut.v)

\* the local calendar day of a Date is the day a date string names
NamesDay(date, dateStr) ==
    /\ date # Null
    /\ getDate(date.h) = dateStr.d
    /\ getMonth(date.h) + 1 = dateStr.m
    /\ getFullYear(date.h) = dateStr.y

\* C15: for every calendar day, parsing its string YYYY-MM-DD and parsing
\* its string DD/MM/YYYY give equal dates, of the day, month and year
\* written: the string YYYY-MM-DD is never read as day, month and year.
C15_IsoAndSlashParseAlike ==
    (pipeIn.fn = "parseFrenchDate" /\ pipeOut # Null) =>
        /\ pipeOut.v[1] = pipeOut.v[2]
        /\ NamesDay(pipeOut.v[1], pipeIn.arg[1])
        /\ NamesDay(pipeOut.v[2], pipeIn.arg[2])

---------------------------------------------------------------------------
(* Classification of the equipment key *)

\* the infixes of the fault location in the order of their declaration,
\* each with its label
FaultInfixes ==
    <<[infix |-> <<"M","N","H">>, label |-> "HOIST"],
      [infix |-> <<"B","M","H">>, label |-> "BOOM"],
      [infix |-> <<"H","D","B">>, label |-> "SPREADER"],
      [infix |-> <<"G","A","N">>, label |-> "GANTRY"],
      [infix |-> <<"E","L","E">>, label |-> "ELECTRICAL"],
      [infix |-> <<"T","R","L">>, label |-> "TROLLEY"],
      [infix |-> <<"L","I","G">>, label |-> "LIGHTING"],
      [infix |-> <<"C","A","B">>, label |-> "OPERATOR CABIN"],
      [infix |-> <<"H","Y","D">>, label |-> "HYDRAULIC"],
      [infix |-> <<"F","E","S">>, label |-> "FESTOON"],
      [infix |-> <<"E","L","V">>, label |-> "ELEVATOR"],
      [infix |-> <<"T","R","M">>, label |-> "TLS"],
      [infix |-> <<"T","L","S">>, label |-> "TLS"],
      [infix |-> <<"S","L","E">>, label |-> "Machine room"]>>

\* the infixes that occur in an upper-cased key, by their place in the
\* declaration
Occurring(k) == {i \in 1..Len(FaultInfixes) : includes(k, FaultInfixes[i].infix)}

\* the label of the first declared infix that occurs in the key
FirstDeclaredLocation(k) ==
    IF Occurring(k) = {} THEN "Other"
    ELSE FaultInfixes[CHOOSE i \in Occurring(k) :
                          \A j \in Occurring(k) : i <= j].label

\* the family of an upper-cased key, cranes first
FirstFamily(k) ==
    IF includes(k, STS) THEN "STS Crane"
    ELSE IF includes(k, SPS) \/ includes(k, SPR) THEN "Spreader"
    ELSE "Other"

\* a loaded row keeps the type and the fault location of its key
ClassifiedAsLoaded(cell, data) ==
    Len(data) = 2 =>
        /\ data[2].EQ_type = FirstFamily(toUpperCase(cell.v))
        /\ data[2].faultlocation = FirstDeclaredLocation(toUpperCase(cell.v))

\* C16: the classification of the equipment key is first match wins: a key
\* containing "STS" is an STS crane even when it also contains "SPR" or
\* "SPS", otherwise a key containing "SPS" or "SPR" is a spreader, otherwise
\* it is Other; the fault location is the label of the first infix, in the
\* order of declaration MNH, BMH, HDB, GAN, ELE, TRL, LIG, CAB, HYD, FES,
\* ELV, TRM or TLS, SLE, that occurs in the upper-cased key, and Other when
\* none occurs.
C16_ClassificationFirstMatch ==
    /\ (pipeIn.fn = "getEquipmentType" /\ pipeOut # Null) =>
           pipeOut.v = FirstFamily(toUpperCase(pipeIn.arg.v))
    /\ (pipeIn.fn = "getFaultLocation" /\ pipeOut # Null) =>
           pipeOut.v = FirstDeclaredLocation(toUpperCase(pipeIn.arg.v))
    /\ (pipeIn.fn = "processExcelWorkbook" /\ pipeOut # Null
        /\ pipeOut.t = "result") =>
           ClassifiedAsLoaded(pipeIn.arg.sheets[1].rows[2].MO_key, pipeOut.data)

\* the key STSSPR150, of both families, is classified as a crane
C16_Witness ==
    /\ pipeIn = Call("getEquipmentType",
                     Str(<<"S","T","S","S","P","R","1","5","0">>))
    /\ pipeOut = Returned("STS Crane")

---------------------------------------------------------------------------
(* Classification of the failure cause *)

\* a rule one of whose substrings occurs in a text
RuleApplies(rule, d) == \E j \in 1..Len(rule.subs) : includes(d, rule.subs[j])

\* the rules tried one after the other in the order of their declaration:
\* the label of the first that applies, none when the rules are exhausted
RECURSIVE ScanRules(_, _, _)
ScanRules(rules, d, none) ==
    IF rules = <<>> THEN none
    ELSE IF RuleApplies(Head(rules), d) THEN Head(rules).label
    ELSE ScanRules(Tail(rules), d, none)

\* the upper-cased name and description of a work order, a blank between
NameAndDescription(wo) == toUpperCase(wo.WO_name \o <<" ">> \o wo.Description)

\* C17: the failure cause of a work order is the label of the first rule,
\* in the order of declaration, one of whose substrings occurs in the
\* upper-cased name and description (joined by a blank); when no rule
\* matches determineFailure returns null and the cause is "Unknown".
C17_FailureIsFirstDeclaredRule ==
    /\ (pipeIn.fn = "determineFailure" /\ pipeOut # Null) =>
           pipeOut.v = ScanRules(failureRules, toUpperCase(pipeIn.arg), "")
    /\ Aggregated =>
           \A i \in 1..Len(pipeOut.data) :
               pipeOut.data[i].failure
                   = ScanRules(failureRules, NameAndDescription(pipeOut.data[i]),
                               "Unknown")

\* the text GANTRY DRIVE ALM, of two rules, has the label of the earlier
C17_Witness ==
    /\ pipeIn = Call("determineFailure",
                     <<"G","A","N","T","R","Y"," ","D","R","I","V","E"," ","A","L","M">>)
    /\ pipeOut = Returned("Drive Off")

HoistEmerg == <<"H","O","I","S","T"," ","E","M","E","R","G">>

\* determineFailure has classified a text that contains "HOIST EMERG"
ClassifiedHoistEmerg ==
    /\ pipeIn.fn = "determineFailure"
    /\ pipeOut # Null
    /\ includes(toUpperCase(pipeIn.arg), HoistEmerg)

\* C18 as stated: a text containing "HOIST EMERG" is classified as
\* "Hoist Emergency brake".
C18_HoistEmergIsEmergencyBrake ==
    ClassifiedHoistEmerg => pipeOut.v = "Hoist Emergency brake"

\* the rules declared before the rule of the emergency brake
RulesBeforeEmergencyBrake ==
    SubSeq(failureRules, 1,
           (CHOOSE i \in 1..Len(failureRules) :
                failureRules[i].label = "Hoist Emergency brake") - 1)

\* a substring of a rule declared before that of the emergency brake occurs
EarlierRuleApplies(d) ==
    \E i \in 1..Len(RulesBeforeEmergencyBrake) :
        RuleApplies(RulesBeforeEmergencyBrake[i], d)

\* C18 amended: a text containing "HOIST EMERG" is classified as
\* "Hoist Emergency brake" if and only if it contains no substring of a
\* rule declared earlier; substrings of rules declared later do not matter.
C18_HoistEmergUnlessEarlierRule ==
    ClassifiedHoistEmerg =>
        (pipeOut.v = "Hoist Emergency brake"
            <=> ~EarlierRuleApplies(toUpperCase(pipeIn.arg)))

\* HOIST EMERG HOIST SLOW, also of a later rule, is the emergency brake
C18_Witness ==
    /\ pipeIn = Call("determineFailure",
                     <<"H","O","I","S","T"," ","E","M","E","R","G"," ",
                       "H","O","I","S","T"," ","S","L","O","W">>)
    /\ pipeOut = Returned("Hoist Emergency brake")

---------------------------------------------------------------------------
(* The top job type and the top status *)

\* the values of a field of a collection, Unknown for one not set
ValuesOf(data, f) == [i \in 1..Len(data) |-> OrDefault(data[i][f], "Unknown")]

\* how often a value occurs among values, and where it occurs first
Occurrences(values, v) == Cardinality({i \in 1..Len(values) : values[i] = v})
FirstOccurrence(values, v) == Min({i \in 1..Len(values) : values[i] = v})

\* v occurs at least as often as any value, and before any that occurs as
\* often
MostFrequentFirst(values, v) ==
    \A i \in 1..Len(values) :
        \/ Occurrences(values, v) > Occurrences(values, values[i])
        \/ /\ Occurrences(values, v) = Occurrences(values, values[i])
           /\ FirstOccurrence(values, v) <= FirstOccurrence(values, values[i])

\* a top entry is the most frequent value of a field, the first of those
\* tied, with its count
IsTopOf(top, values) ==
    /\ \E i \in 1..Len(values) : values[i] = top.obs
    /\ MostFrequentFirst(values, top.obs)
    /\ top.count = Occurrences(values, top.obs)

\* C19: the top job type and the top status of the KPIs are the values
\* with the highest count in their count table, and among the values tied
\* for the highest count the one whose first occurrence in the collection
\* comes earliest.
C19_TopIsMostFrequentFirst ==
    Aggregated =>
        /\ IsTopOf(pipeOut.kpis.top_job_type, ValuesOf(pipeOut.data, "Job_type"))
        /\ IsTopOf(pipeOut.kpis.top_status, ValuesOf(pipeOut.data, "JobstatusObs"))

---------------------------------------------------------------------------
(* Aggregation once more *)

\* processData is run on a collection after it has returned aggregates
RunAgain ==
    /\ Aggregated
    /\ pipeIn'.fn = "processData"
    /\ pipeOut' # Null

\* C20: aggregation is idempotent: run once more over the identical
\* collection, or over the collection it returned, processData returns the
\* same KPI scalars and top entries (kpis) and the same distributions and
\* weekly series (charts).
C20_AggregationIdempotent ==
    [][RunAgain =>
          /\ pipeOut'.t = "result"
          /\ pipeOut'.kpis = pipeOut.kpis
          /\ pipeOut'.charts = pipeOut.charts]_vars

\* processData has aggregated a collection of three work orders that it
\* had returned: these carry the failure labels of the first run
C20_Witness ==
    /\ Aggregated
    /\ Len(pipeIn.arg.items) = 3
    /\ \A i \in 1..3 : pipeIn.arg.items[i].failure # ""
    /\ pipeIn.arg.items = pipeOut.data

---------------------------------------------------------------------------
(* The sorted distributions *)

\* the counts of a distribution never grow along its entries
NonIncreasing(dist) ==
    \A i \in 1..Len(dist) : \A j \in i..Len(dist) : dist[i].count >= dist[j].count

\* the top faults are at most 10 causes of the cause distribution, none
\* with a smaller count than a cause left out
TopTenOf(top, causes) ==
    /\ Len(top) <= 10
    /\ \A i \in 1..Len(top) : \E j \in 1..Len(causes) : causes[j] = top[i]
    /\ \A j \in 1..Len(causes) :
           causes[j].key \notin Keys(top) =>
               \A i \in 1..Len(top) : top[i].count >= causes[j].count

\* C21: the status and the job-type distributions are returned with their
\* entries in non-increasing order of count, and the top faults hold at
\* most 10 failure causes, none of which has a smaller count than a cause
\* left out.
C21_DistributionsSortedTopTen ==
    Aggregated =>
        /\ NonIncreasing(pipeOut.charts.status_dist)
        /\ NonIncreasing(pipeOut.charts.job_type_dist)
        /\ TopTenOf(pipeOut.charts.top_faults, pipeOut.charts.wo_per_cause)

---------------------------------------------------------------------------
(* The rule that is never reached *)

\* the place of the rule that returns "Hoist brake"
HoistBrakeRule ==
    CHOOSE i \in 1..Len(failureRules) : failureRules[i].label = "Hoist brake"

\* every substring of the rule holds a substring of a rule declared before
\* it: a text with the former has the latter
HoistBrakeShadowed ==
    \A j \in 1..Len(failureRules[HoistBrakeRule].subs) :
        \E i \in 1..(HoistBrakeRule - 1) :
            RuleApplies(failureRules[i], failureRules[HoistBrakeRule].subs[j])

\* C22: the later "HOIST BRAKE" rule is unreachable: for no text does the
\* classifier return "Hoist brake", because every text containing
\* "HOIST BRAKE" is claimed by the earlier rule that returns
\* "Hoist service brake", or by a rule before it.
C22_HoistBrakeNeverReturned ==
    /\ HoistBrakeShadowed
    /\ (pipeIn.fn = "determineFailure" /\ pipeOut # Null) =>
           pipeOut.v # "Hoist brake"
    /\ Aggregated =>
           \A i \in 1..Len(pipeOut.data) : pipeOut.data[i].failure # "Hoist brake"

\* the text HOIST BRAKE is classified by the earlier rule
C22_Witness ==
    /\ pipeIn = Call("determineFailure",
                     <<"H","O","I","S","T"," ","B","R","A","K","E">>)
    /\ pipeOut = Returned("Hoist service brake")

---------------------------------------------------------------------------
(* The synthesized name and description *)

\* a source row with neither a name nor a description
Unnamed(row) ==
    /\ ~Truthy(row.WO_name) /\ ~Truthy(row.wo_name)
    /\ ~Truthy(row.Description) /\ ~Truthy(row.description)

\* a two-row sheet has been loaded and both of its rows retained
LoadedBothRows ==
    /\ pipeIn.fn = "processExcelWorkbook"
    /\ pipeOut # Null
    /\ pipeOut.t = "result"
    /\ Len(pipeOut.data) = 2

\* C23: a retained work order whose source row has neither a name nor a
\* description, both being synthesized as "Work Order N" and
\* "Description for WO N", has the failure cause "Unknown": the synthesized
\* texts match no rule.
C23_SynthesizedTextIsUnknown ==
    (LoadedBothRows /\ Unnamed(pipeIn.arg.sheets[1].rows[2])) =>
        pipeOut.data[2].failure = "Unknown"

---------------------------------------------------------------------------
(* From a week to a date and back *)

\* C27: converting a week bucket to a date and back is the identity: for
\* every year Y and valid ISO week W, getDateFromISOWeek of the week string
\* is the Monday of ISO week W of year Y, and getWeekNumber of that date
\* is W.
C27_WeekToDateAndBack ==
    (pipeIn.fn = "getDateFromISOWeek" /\ pipeOut # Null) =>
        /\ pipeOut.v.date
               = DateVal(24 * MondayOfIsoWeek(DaysFromCivil(pipeIn.arg.y, 1, 4),
                                              pipeIn.arg.w))
        /\ pipeOut.v.week = pipeIn.arg.w

---------------------------------------------------------------------------
(* The two averages of the processing time *)

\* two means, each kept as a sum and a number of terms, are the same
\* number; the mean of no term is 0
SameMean(a, b) ==
    a.sum * (IF b.n = 0 THEN 1 ELSE b.n) = b.sum * (IF a.n = 0 THEN 1 ELSE a.n)

\* C28: the average processing time computed at load by processData and
\* the one renderGeneralKPIs computes again over the same collection are
\* equal for every collection, collections with closed work orders of the
\* same day or of a negative duration included.
C28_LoadAndGeneralAveragesAgree ==
    (pipeIn.fn = "renderGeneralKPIs" /\ pipeOut # Null) =>
        SameMean(pipeOut.v.avgProcessingTime,
                 pipeIn.arg.kpis.avg_processing_time)

---------------------------------------------------------------------------
(* The fault table after a filter change *)

\* the handlers that narrow the held collection and hand it to
\* updateCharts
NarrowingHandlers == FilterHandlers \cup {"equipmentSelect"}

\* C29: after every filter change the top-10 fault table reflects the
\* currently filtered collection, including when the filter matches no
\* work order: the table then shows no faults rather than the faults of
\* an earlier selection.
C29_FaultTableFollowsFilter ==
    lastEvent.handler \in NarrowingHandlers
        => faultsTable = topFaults(filtered)

---------------------------------------------------------------------------
(* Loads that fail *)

\* no load has succeeded yet
NeverLoaded == lastEvent.file = Null

\* nothing has been aggregated or drawn: the page is as served
NothingAggregated ==
    /\ kpiSection = Null
    /\ chartSection = Null
    /\ faultsTable = Null
    /\ equipmentAnalysis = Null
    /\ periodInfo = [orderPeriod |-> NoData, execPeriod |-> NoData]

\* a step that is the reader.onload of a load that fails
FailedLoad ==
    /\ \E r \in reading : reading' = reading \ {r}
    /\ lastEvent'.handler = "onloadError"

\* C30: a load that fails (invalid workbook, no rows, no valid rows after
\* normalization, or an exception during processing) leaves the held
\* collection and the active view exactly as they were before the load;
\* while no load has ever succeeded the held collection stays null and
\* view-switch, filter, equipment-selection and export events perform no
\* aggregation.
C30_FailedLoadChangesNothing ==
    /\ [][FailedLoad => UNCHANGED <<currentData, currentView>>]_vars
    /\ [](NeverLoaded => currentData = Null /\ NothingAggregated)

\* a load has failed after a successful one and a change of view
C30_Witness ==
    /\ lastEvent.handler = "onloadError"
    /\ currentData # Null
    /\ currentView # "general"

---------------------------------------------------------------------------
(* The theme *)

\* a step that is a change of the theme or a toggle of dark mode
ThemeEvent ==
    /\ lastEvent'.handler = "setTheme"
    /\ UNCHANGED <<reading, equipmentSelect>>

\* the held collection narrowed by the criteria applied last
NarrowedByCriteria == filterData(currentData.data, lastEvent.filters)

\* the rows of a collection the current view is about
InView(data) ==
    CASE currentView = "corrective" -> correctiveData(data)
      [] currentView = "breakdown" -> breakdownData(data)
      [] OTHER -> data

\* the displayed aggregates cover the collection narrowed by the active
\* filter criteria, or that collection narrowed by the view predicate
CoversNarrowed ==
    /\ currentData # Null
    /\ lastEvent.filters # Null
    /\ kpiSection.data \in {NarrowedByCriteria, InView(NarrowedByCriteria)}

\* C25: changing the theme or toggling dark mode leaves the displayed
\* population unchanged: if the displayed aggregates covered the
\* collection narrowed by the active filter criteria (and view predicate)
\* before the theme event, they cover the same set of work orders after
\* it.
C25_ThemeKeepsPopulation ==
    [][(ThemeEvent /\ CoversNarrowed)
          => Range(kpiSection'.data) = Range(kpiSection.data)]_vars

---------------------------------------------------------------------------
(* The criteria a load fills in *)

\* a step from the state a load has left in which the filters are applied
\* with the criteria as the form holds them
AppliedAsPopulated ==
    /\ lastEvent.handler = "onload"
    /\ lastEvent'.handler \in FilterHandlers
    /\ lastEvent'.filters = readFilters(weekInputs, selects)

\* C26: immediately after a load, applying the filters with the criteria
\* exactly as the load populated them (every category option selected,
\* date bounds set to the first and last observed weeks) returns every
\* work order of the loaded collection.
C26_PopulatedCriteriaKeepAll ==
    [][AppliedAsPopulated => equipmentAnalysis'.data = currentData.data]_vars

---------------------------------------------------------------------------
(* Loads that overlap *)

\* of two loads, both started, the read of the first is the one still in
\* flight: the second, initiated last, has completed and is the held one
OvertakenRead(r) ==
    /\ reading = {r}
    /\ nextLoad = 2
    /\ r.load = 1
    /\ currentData # Null
    /\ processExcelWorkbook(r.file).t # "error"

\* C24: when two loads overlap (the delayed automatic start-up load of
\* WO.xlsx and a user-initiated upload, or two uploads), after both have
\* completed the held collection and the displayed aggregates are those
\* of the load that was initiated last, whatever order the asynchronous
\* file reads complete in.
C24_LastInitiatedLoadWins ==
    [][\A r \in reading :
          (OvertakenRead(r) /\ reading' = {})
              => /\ currentData' = currentData
                 /\ kpiSection'.data = currentData.data]_vars

===========================================================================
